---------------------------- MODULE Spec2Model ----------------------------
(***************************************************************************)
(* A model of zounds-rs: the Life driver (life.rs), the resizing buffer    *)
(* copy (buffer_copy.rs) and the pipeline binder and buffers (bindable.rs).*)
(*                                                                         *)
(* GPU memory is modelled as a map from buffer ids to flat cell arrays     *)
(* (row-major, index = y * width + x).  Work recorded into a command       *)
(* encoder takes effect when the encoder is submitted to the queue.        *)
(*                                                                         *)
(* dimensions.rs, directions.rs and the WGSL kernels are not among the     *)
(* source files; the definitions that stand for them are written from the  *)
(* specification and from the way the source uses them.                    *)
(***************************************************************************)
EXTENDS Integers, Sequences, FiniteSets, TLC

\* ------------------------------------------------------------------------
\* Bounds of the model.

\* Grid widths and heights range over 0..MaxDim.
MaxDim == 4
\* Life::step is called at most MaxSteps times in a behaviour.
MaxSteps == 3
\* Life::resize is called at most MaxResizes times in a behaviour.
MaxResizes == 1
\* Life::import is called at most MaxImports times in a behaviour.
MaxImports == 1
\* Binder::bind_up is handed lists of at most MaxArgs arguments.
MaxArgs == 3

\* The most copies made in a row from one buffer.
MaxCopies == 2
\* The host program renders at most MaxFrames frames in a behaviour.
MaxFrames == 2
MaxDumps == 1

\* ------------------------------------------------------------------------
\* Program constants.

\* buffer_copy.rs WORKGROUP_SIZE = (8, 8) and life.rs WORKGROUP_SIZE = (8, 8)
WORKGROUP_SIZE == 8
\* mem::size_of::<f32>()
SizeOfF32 == 4
\* mem::size_of::<[u32; 4]>()
SizeOfVec4U32 == 16
\* mem::size_of::<CopyParams>(): eight u32 fields
SizeOfCopyParams == 32
\* mem::size_of::<Params>(): u32, u32, f32
SizeOfParams == 12

Min(a, b) == IF a < b THEN a ELSE b
Max(a, b) == IF a > b THEN a ELSE b

\* ------------------------------------------------------------------------
\* dimensions.rs: Dimensions { width, height }, as the pair <<width, height>>.

Dimensions(w, h) == <<w, h>>
width(dm) == dm[1]
height(dm) == dm[2]
area(dm) == dm[1] * dm[2]

Dims == (0..MaxDim) \X (0..MaxDim)

\* The window sizes the driver is constructed with and resized to: the
\* squares, and the rectangles of half perimeter MaxDim (which include a
\* zero width and a zero height).
WindowSizes ==
    {dm \in Dims : width(dm) = height(dm) \/ width(dm) + height(dm) = MaxDim}

\* ------------------------------------------------------------------------
\* directions.rs: RenderDir, RenderSources, RenderMotion.

RenderDirs == {"Forward", "Backward"}

\* RenderDir::dir(frame_num): the Phase of a step count.
RenderDir_dir(n) == IF n % 2 = 0 THEN "Forward" ELSE "Backward"

Other(dir) == IF dir = "Forward" THEN "Backward" ELSE "Forward"

\* RenderDir::iterate(f): the directions in the order f is applied to them.
RenderDir_iterate == <<"Forward", "Backward">>

\* RenderSources::src(dir): the buffer built for dir ("Source for {dir}").
src(sources, dir) == sources[dir]
\* RenderSources::dst(dir): the buffer built for the other direction.
dst(sources, dir) == sources[Other(dir)]

\* ------------------------------------------------------------------------
\* bindable.rs: Buffer, Buffer2D, Texture, Sampler and their Bindable impls.

BindAccess == {"ReadOnly", "ReadSampled", "WriteOnly"}

\* Buffer::new / Buffer::new_init: a linear buffer of `size` bytes.
Buffer(id, ty, size) ==
    [kind |-> "Buffer", id |-> id, ty |-> ty, size |-> size]

\* A Buffer2D::new that allocates one byte per cell.
Buffer2D_new_unscaled(id, label, dm, elem) ==
    [kind |-> "Buffer2D",
     buf |-> Buffer(id, "Storage", area(dm)),
     dim |-> dm,
     label |-> label]

\* Buffer2D::new_init: assert_eq!(contents.len(), area * size_of::<T>()),
\* then a buffer of contents.len() bytes (Buffer::new_init).
Buffer2D_new_init(id, label, ty, dm, elem, len) ==
    IF len # area(dm) * elem
    THEN [panicked |-> TRUE, buffer |-> <<>>]
    ELSE [panicked |-> FALSE,
          buffer |-> [kind |-> "Buffer2D",
                      buf |-> Buffer(id, ty, len),
                      dim |-> dm,
                      label |-> label]]

\* bytemuck::cast_slice(&data).len(): the bytes of a vector of elements.
cast_slice_len(data, elem) == Cardinality(DOMAIN data) * elem

\* Buffer2D::new: a Storage buffer of area * size_of::<T>() bytes.
Buffer2D_new(id, label, dm, elem) ==
    [kind |-> "Buffer2D",
     buf |-> Buffer(id, "Storage", area(dm) * elem),
     dim |-> dm,
     label |-> label]

\* Texture::new
Texture(id, format) == [kind |-> "Texture", id |-> id, format |-> format]

\* Sampler::new
Sampler(id) == [kind |-> "Sampler", id |-> id]

\* The wgpu buffer, texture view or sampler behind a Bindable.
ResourceId(res) == IF res.kind = "Buffer2D" THEN res.buf.id ELSE res.id

\* impl Bindable for Buffer: binding_type
Buffer_binding_type(b, access) ==
    [binding |-> "Buffer",
     ty |-> b.ty,
     read_only |-> IF b.ty = "Storage"
                   THEN (CASE access = "ReadOnly" -> TRUE
                           [] access = "ReadSampled" -> TRUE
                           [] access = "WriteOnly" -> FALSE)
                   ELSE FALSE,
     has_dynamic_offset |-> FALSE,
     min_binding_size |-> b.size]

\* impl Bindable for Texture: binding_type
Texture_binding_type(t, access) ==
    CASE access = "ReadOnly" ->
           [binding |-> "StorageTexture", access |-> "ReadOnly",
            format |-> t.format, view_dimension |-> "D2"]
      [] access = "ReadSampled" ->
           [binding |-> "Texture", sample_type |-> t.format,
            view_dimension |-> "D2", multisampled |-> FALSE]
      [] access = "WriteOnly" ->
           [binding |-> "StorageTexture", access |-> "WriteOnly",
            format |-> t.format, view_dimension |-> "D2"]

\* impl Bindable for Sampler: binding_type
Sampler_binding_type(s, access) ==
    [binding |-> "Sampler", comparison |-> FALSE, filtering |-> TRUE]

\* Bindable::binding_type, dispatched on the resource's variant.
binding_type(res, access) ==
    CASE res.kind = "Buffer" -> Buffer_binding_type(res, access)
      [] res.kind = "Buffer2D" -> Buffer_binding_type(res.buf, access)
      [] res.kind = "Texture" -> Texture_binding_type(res, access)
      [] res.kind = "Sampler" -> Sampler_binding_type(res, access)

\* Bindable::binding_resource, dispatched on the resource's variant.
binding_resource(res) ==
    CASE res.kind = "Buffer" -> [resource |-> "Buffer", id |-> res.id]
      [] res.kind = "Buffer2D" -> [resource |-> "Buffer", id |-> res.buf.id]
      [] res.kind = "Texture" -> [resource |-> "TextureView", id |-> res.id]
      [] res.kind = "Sampler" -> [resource |-> "Sampler", id |-> res.id]

\* An argument of a binding list: (BindAccess, &dyn Bindable).
Arg(access, res) == [access |-> access, res |-> res]

\* ------------------------------------------------------------------------
\* bindable.rs: Binder.

\* The layout entries of an argument list: entry idx is built from the
\* idx-th argument (args.iter().enumerate()).
LayoutEntries(args) ==
    [i \in 1..Len(args) |->
        [binding |-> i - 1,
         visibility |-> "COMPUTE",
         ty |-> binding_type(args[i].res, args[i].access)]]

\* Bind group entries numbered from one.
GroupEntries_from_one(args) ==
    [i \in 1..Len(args) |->
        [binding |-> i,
         resource |-> binding_resource(args[i].res)]]

\* The bind group entries of an argument list.
GroupEntries(args) ==
    [i \in 1..Len(args) |->
        [binding |-> i - 1,
         resource |-> binding_resource(args[i].res)]]

\* Binder::bind_up: (pipeline, bind_group) for one argument list.
bind_up(entry_point, args) ==
    [pipeline |-> [entry_point |-> entry_point,
                   layout |-> LayoutEntries(args)],
     bind_group |-> [layout |-> LayoutEntries(args),
                     entries |-> GroupEntries(args)],
     called |-> TRUE]

\* A bind_up_dir that applies args once per direction and takes the layout
\* from the Forward list it got for the bind group.
bind_up_dir_once_each(entry_point, args) ==
    [pipeline |-> [entry_point |-> entry_point,
                   layout |-> LayoutEntries(args["Forward"])],
     bind_groups |-> [dir \in RenderDirs |->
                        [layout |-> LayoutEntries(args["Forward"]),
                         entries |-> GroupEntries(args[dir])]],
     evaluated |-> RenderDir_iterate]

\* Binder::bind_up_dir: (pipeline, bind_groups); args maps a direction to
\* an argument list.  The layout comes from args(Forward); each direction's
\* bind group comes from args(dir).  `evaluated` lists the directions args
\* was applied to, in order.
bind_up_dir(entry_point, args) ==
    [pipeline |-> [entry_point |-> entry_point,
                   layout |-> LayoutEntries(args["Forward"])],
     bind_groups |-> [dir \in RenderDirs |->
                        [layout |-> LayoutEntries(args["Forward"]),
                         entries |-> GroupEntries(args[dir])]],
     evaluated |-> <<"Forward">> \o RenderDir_iterate]

\* ------------------------------------------------------------------------
\* buffer_copy.rs: BufferCopier.

\* Offsets that round the halved difference up instead of down.
copy_params_round_up(src_buf, dst_buf) ==
    LET ow == width(src_buf.dim)
        oh == height(src_buf.dim)
        nw == width(dst_buf.dim)
        nh == height(dst_buf.dim)
    IN  [odx    |-> IF nw < ow THEN (ow - nw + 1) \div 2 ELSE 0,
         ndx    |-> IF nw > ow THEN (nw - ow + 1) \div 2 ELSE 0,
         ody    |-> IF nh < oh THEN (oh - nh + 1) \div 2 ELSE 0,
         ndy    |-> IF nh > oh THEN (nh - oh + 1) \div 2 ELSE 0,
         owidth |-> ow,
         nwidth |-> nw,
         width  |-> Min(ow, nw),
         height |-> Min(oh, nh)]

\* Parameters whose old-side offsets round up while the new-side ones
\* round down.
copy_params_lopsided(src_buf, dst_buf) ==
    LET ow == width(src_buf.dim)
        oh == height(src_buf.dim)
        nw == width(dst_buf.dim)
        nh == height(dst_buf.dim)
    IN  [odx    |-> IF nw < ow THEN (ow - nw + 1) \div 2 ELSE 0,
         ndx    |-> IF nw > ow THEN (nw - ow) \div 2 ELSE 0,
         ody    |-> IF nh < oh THEN (oh - nh + 1) \div 2 ELSE 0,
         ndy    |-> IF nh > oh THEN (nh - oh) \div 2 ELSE 0,
         owidth |-> ow,
         nwidth |-> nw,
         width  |-> Min(ow, nw),
         height |-> Min(oh, nh)]

\* Parameters whose offsets are the whole difference, not half of it.
copy_params_uncentred(src_buf, dst_buf) ==
    LET ow == width(src_buf.dim)
        oh == height(src_buf.dim)
        nw == width(dst_buf.dim)
        nh == height(dst_buf.dim)
    IN  [odx    |-> IF nw < ow THEN ow - nw ELSE 0,
         ndx    |-> IF nw > ow THEN nw - ow ELSE 0,
         ody    |-> IF nh < oh THEN oh - nh ELSE 0,
         ndy    |-> IF nh > oh THEN nh - oh ELSE 0,
         owidth |-> ow,
         nwidth |-> nw,
         width  |-> Min(ow, nw),
         height |-> Min(oh, nh)]

\* BufferCopier::copy_params
copy_params(src_buf, dst_buf) ==
    LET ow == width(src_buf.dim)
        oh == height(src_buf.dim)
        nw == width(dst_buf.dim)
        nh == height(dst_buf.dim)
    IN  [odx    |-> IF nw < ow THEN (ow - nw) \div 2 ELSE 0,
         ndx    |-> IF nw > ow THEN (nw - ow) \div 2 ELSE 0,
         ody    |-> IF nh < oh THEN (oh - nh) \div 2 ELSE 0,
         ndy    |-> IF nh > oh THEN (nh - oh) \div 2 ELSE 0,
         owidth |-> ow,
         nwidth |-> nw,
         width  |-> Min(ow, nw),
         height |-> Min(oh, nh)]

\* The field order of #[repr(C)] struct CopyParams.
CopyParamsFields ==
    <<"odx", "ody", "ndx", "ndy", "owidth", "nwidth", "width", "height">>

\* A parameter block laid out axis by axis: both x offsets, then both y
\* offsets.
bytes_of_by_axis(params) ==
    <<params.odx, params.ndx, params.ody, params.ndy,
      params.owidth, params.nwidth, params.width, params.height>>

\* bytemuck::bytes_of(&params): the fields of the #[repr(C)] struct in the
\* order of their declaration, one u32 word each.
bytes_of(params) ==
    [i \in 1..Len(CopyParamsFields) |-> params[CopyParamsFields[i]]]

\* A group count that is one more than the whole groups in n.
Groups_one_more(n) == n \div WORKGROUP_SIZE + 1

\* The work groups of one axis: (n + WORKGROUP_SIZE - 1) / WORKGROUP_SIZE.
\* The grids of the model are far from the u32 range, so the sum is exact.
Groups(n) == (n + WORKGROUP_SIZE - 1) \div WORKGROUP_SIZE

\* A dispatch that rounds the group counts down.
copy_dispatch_floor(params) ==
    <<params.width \div WORKGROUP_SIZE, params.height \div WORKGROUP_SIZE, 1>>

\* cpass.dispatch(...) of BufferCopier::copy
copy_dispatch(params) == <<Groups(params.width), Groups(params.height), 1>>

\* A read of a storage buffer; out of bounds reads yield the default value.
Load(cells, i, default) == IF i \in DOMAIN cells THEN cells[i] ELSE default

\* A write to a storage buffer; out of bounds writes are dropped.
Store(cells, i, v) == IF i \in DOMAIN cells THEN [cells EXCEPT ![i] = v] ELSE cells

\* buffer_copy.wgsl, entry point "copy", for the invocations k..n-1 of a
\* dispatch whose grid is gx * WORKGROUP_SIZE invocations wide: invocation
\* (x, y) inside the overlap copies old[(y+ody)*owidth + x+odx] to
\* new[(y+ndy)*nwidth + x+ndx]; the others return.
RECURSIVE CopyKernel(_, _, _, _, _, _, _)
CopyKernel(p, gx, k, n, old, new, default) ==
    IF k >= n THEN new
    ELSE LET x == k % (gx * WORKGROUP_SIZE)
             y == k \div (gx * WORKGROUP_SIZE)
         IN  IF x >= p.width \/ y >= p.height
             THEN CopyKernel(p, gx, k + 1, n, old, new, default)
             ELSE CopyKernel(p, gx, k + 1, n, old,
                     Store(new, (y + p.ndy) * p.nwidth + (x + p.ndx),
                           Load(old, (y + p.ody) * p.owidth + (x + p.odx),
                                default)),
                     default)

\* The number of invocations of a dispatch of `groups` work groups.
Invocations(groups) ==
    (groups[1] * WORKGROUP_SIZE) * (groups[2] * WORKGROUP_SIZE) * groups[3]

\* A copy with its buffers the wrong way round: from dst_buf into src_buf.
copy_backwards(src_buf, dst_buf, old, new, default, wasm32) ==
    LET params == copy_params(dst_buf, src_buf)
        param_buf == Buffer([label |-> "copy data parameters",
                             gen |-> dst_buf.buf.id.gen],
                            "Uniform", SizeOfCopyParams)
        args == <<Arg("ReadOnly", param_buf),
                  Arg("ReadOnly", dst_buf),
                  Arg("WriteOnly", src_buf)>>
        groups == copy_dispatch(params)
    IN  [params |-> params,
         param_data |-> bytes_of(params),
         bound |-> bind_up("copy", args),
         groups |-> groups,
         src |-> dst_buf,
         dst |-> src_buf,
         wasm32 |-> wasm32,
         fill |-> <<>>,
         created |-> 1,
         submitted |-> 1,
         cells |-> new]

\* BufferCopier::copy, #[cfg(target_arch = "wasm32")]: dst_buf.copyin_vec
\* of area default values, before the kernel is dispatched.  copyin_vec
\* creates an import buffer ("<label> data import buffer") holding the
\* values, records a copy of it over the whole destination and submits it
\* at once; its assertion holds, the vector having area elements.  A native
\* build has no such step.  `new` is the cells of dst_buf before the call.
zero_fill(dst_buf, new, default, wasm32) ==
    IF wasm32
    THEN [recorded |-> <<[op |-> "copy_buffer_to_buffer",
                          src |-> [label |-> "data import buffer",
                                   gen |-> dst_buf.buf.id.gen],
                          dst |-> dst_buf.buf.id,
                          size |-> dst_buf.buf.size]>>,
          created |-> 1,
          submitted |-> 1,
          cells |-> [i \in 0..(area(dst_buf.dim) - 1) |-> default]]
    ELSE [recorded |-> <<>>, created |-> 0, submitted |-> 0, cells |-> new]

\* BufferCopier::copy: what one call binds, dispatches and, its command
\* buffer being submitted at once, leaves in the destination buffer.  `old`
\* and `new` are the cells of src_buf and dst_buf before the call.  The
\* parameters buffer is created, the arguments are bound, a wasm32 build
\* overwrites the destination with default values, and the kernel runs.
copy(src_buf, dst_buf, old, new, default, wasm32) ==
    LET params == copy_params(src_buf, dst_buf)
        filled == zero_fill(dst_buf, new, default, wasm32)
        param_buf == Buffer([label |-> "copy data parameters",
                             gen |-> dst_buf.buf.id.gen],
                            "Uniform", SizeOfCopyParams)
        args == <<Arg("ReadOnly", param_buf),
                  Arg("ReadOnly", src_buf),
                  Arg("WriteOnly", dst_buf)>>
        groups == copy_dispatch(params)
    IN  [params |-> params,
         param_data |-> bytes_of(params),
         bound |-> bind_up("copy", args),
         groups |-> groups,
         src |-> src_buf,
         dst |-> dst_buf,
         wasm32 |-> wasm32,
         fill |-> filled.recorded,
         created |-> 1 + filled.created,
         submitted |-> filled.submitted + 1,
         cells |-> CopyKernel(params, groups[1], 0, Invocations(groups),
                              old, filled.cells, default)]

\* ------------------------------------------------------------------------
\* The state.

VARIABLES
    \* struct Life
    pipeline,       \* wgpu::ComputePipeline
    bind_groups,    \* RenderMotion<wgpu::BindGroup>
    dimensions,     \* Dimensions
    cell_buffers,   \* RenderSources<Buffer2D<f32>>
    random_buf,     \* Buffer2D<[u32; 4]>
    debug_buffer,   \* DebugBuffer<f32>
    frame_num,      \* usize
    \* the device and the caller
    gpu,            \* the contents of the live buffers, by buffer id
    encoder,        \* the caller's command encoder: the steps recorded in it
    generation,     \* how many times resize has replaced the buffers
    \* history
    steps,          \* calls of Life::step so far
    imports,        \* calls of Life::import so far
    last_step,      \* what the last call of Life::step recorded
    last_import,    \* the data and the frame of the last Life::import
    last_written,   \* the cell buffer the last executed step wrote
    trail,          \* the resizes made since the last other operation
    \* the buffer copier and the binder on their own
    chain,          \* a buffer and the buffers copied from it, one by one
    bind_args,      \* the argument list handed to Binder::bind_up
    bind_result,    \* what Binder::bind_up returned for it
    \* the random source and the binding closure
    rng,            \* how many samples have been drawn from the generator
    evaluations,    \* the directions the binding closure was applied to
    \* the host program (main.rs, renderer.rs, window.rs)
    pc,             \* where the host program is
    renderer,       \* the Renderer's bind group
    frames,         \* frames rendered so far
    waits,          \* times the host has waited for the device
    \* Buffer2D::copyin_* and the dispatch arithmetic on their own
    copyin,         \* a destination buffer and the last copy into it
    tiles           \* a grid size and the dispatch computed for it

vars == <<pipeline, bind_groups, dimensions, cell_buffers, random_buf,
          debug_buffer, frame_num, gpu, encoder, generation, steps, imports,
          last_step, last_import, last_written, trail, chain, bind_args,
          bind_result, rng, evaluations, pc, renderer, frames, waits,
          copyin, tiles>>

\* The driver, the device and their history.
driverVars == <<pipeline, bind_groups, dimensions, cell_buffers, random_buf,
                debug_buffer, frame_num, gpu, encoder, generation, steps,
                imports, last_step, last_import, last_written, trail, rng,
                evaluations>>

\* The variables of the copier and the binder taken on their own.
benchVars == <<chain, bind_args, bind_result>>

\* The variables of the host program around the driver.
hostVars == <<pc, renderer, frames, waits>>

\* The variables of the copies into a buffer and of the dispatch arithmetic
\* taken on their own.
probeVars == <<copyin, tiles>>

\* ------------------------------------------------------------------------
\* Buffers and their contents.

Id(label, gen) == [label |-> label, gen |-> gen]

CellLabel(dir) ==
    IF dir = "Forward" THEN "Source for Forward" ELSE "Source for Backward"

\* The cells of a freshly created buffer.
Fresh(dm, default) == [i \in 0..(area(dm) - 1) |-> default]

ZeroF32 == 0
ZeroVec4 == <<0, 0, 0, 0>>

\* rand: the k-th u32 a generator seeded with `seed` yields.
Sample(seed, k) == (seed * 31 + k * 17) % 97

\* Life::new: four samples per cell, in cell order.
random_data(dm, seed) ==
    [i \in 0..(area(dm) - 1) |->
        <<Sample(seed, 4 * i), Sample(seed, 4 * i + 1),
          Sample(seed, 4 * i + 2), Sample(seed, 4 * i + 3)>>]

\* main.rs seeds the generator with 42.
Seed == 42

\* main.rs LifeProg::params: the Uniform buffer of the kernel's parameters.
LifeProg_params(gen) == Buffer(Id("Life parameters", gen), "Uniform", SizeOfParams)

\* main.rs: the contents of the parameters buffer.
Params(dm) == [width |-> width(dm), height |-> height(dm)]

\* main.rs: Texture::new(device, dim, R32Float)
LifeProg_texture(gen) == Texture(Id("texture", gen), "R32Float")

\* A closure that binds the driver's present random buffer, self.random_buf,
\* instead of the one just created.
LifeArgs_stale_random(params, cells, random, texture, dir) ==
    <<Arg("ReadOnly",  params),
      Arg("ReadOnly",  src(cells, dir)),
      Arg("WriteOnly", dst(cells, dir)),
      Arg("WriteOnly", random_buf),
      Arg("WriteOnly", texture)>>

\* A closure that binds the source buffer as the destination too.
LifeArgs_same_buffer(params, cells, random, texture, dir) ==
    <<Arg("ReadOnly",  params),
      Arg("ReadOnly",  src(cells, dir)),
      Arg("WriteOnly", src(cells, dir)),
      Arg("WriteOnly", random),
      Arg("WriteOnly", texture)>>

\* A closure that asks for write access to the source buffer.
LifeArgs_writable_source(params, cells, random, texture, dir) ==
    <<Arg("ReadOnly",  params),
      Arg("WriteOnly", src(cells, dir)),
      Arg("WriteOnly", dst(cells, dir)),
      Arg("WriteOnly", random),
      Arg("WriteOnly", texture)>>

\* The closure Life::new and Life::resize hand to bind_up_dir.
LifeArgs(params, cells, random, texture, dir) ==
    <<Arg("ReadOnly",  params),
      Arg("ReadOnly",  src(cells, dir)),
      Arg("WriteOnly", dst(cells, dir)),
      Arg("WriteOnly", random),
      Arg("WriteOnly", texture)>>

\* The buffers of generation gen at dimension dm.
NewCellBuffers(gen, dm) ==
    [dir \in RenderDirs |->
        Buffer2D_new(Id(CellLabel(dir), gen), CellLabel(dir), dm, SizeOfF32)]

NewRandomBuf(gen, dm) ==
    Buffer2D_new(Id("random data", gen), "random data", dm, SizeOfVec4U32)

\* DebugBuffer::new
DebugBuffer_new(gen, dm) ==
    [buf |-> Buffer2D_new(Id("debug buffer", gen), "debug buffer", dm, SizeOfF32)]

\* The device memory of one generation.
Memory(gen, cells, random, debug, dm) ==
    (Id(CellLabel("Forward"), gen) :> cells["Forward"])
    @@ (Id(CellLabel("Backward"), gen) :> cells["Backward"])
    @@ (Id("random data", gen) :> random)
    @@ (Id("debug buffer", gen) :> debug)
    @@ (Id("Life parameters", gen) :> Params(dm))

NoStep == [dir |-> "None", gen |-> 0, pipeline |-> <<>>,
           bind_group |-> <<>>, dispatch |-> <<>>, copies |-> <<>>]
NoImport == [frame |-> 0 - 1, gen |-> 0, cells |-> <<>>, into |-> "None"]
NoBind == [pipeline |-> <<>>, bind_group |-> <<>>, called |-> FALSE]
NoRenderer == [bind_group |-> <<>>, bound |-> 0]
NoCopyin == [op |-> "None"]
NoTiles == [op |-> "None"]

\* ------------------------------------------------------------------------
\* Life::new

new(dm, seed) ==
    LET cells == NewCellBuffers(0, dm)
        random == Buffer2D_new_init(
                      Id("random data", 0), "random data", "Storage", dm,
                      SizeOfVec4U32,
                      cast_slice_len(random_data(dm, seed),
                                     SizeOfVec4U32)).buffer
        bound == bind_up_dir("life",
                    [dir \in RenderDirs |->
                        LifeArgs(LifeProg_params(0), cells, random,
                                 LifeProg_texture(0), dir)])
    IN  /\ cell_buffers = cells
        /\ random_buf = random
        /\ debug_buffer = DebugBuffer_new(0, dm)
        /\ pipeline = bound.pipeline
        /\ bind_groups = bound.bind_groups
        /\ dimensions = dm
        /\ frame_num = 0
        /\ gpu = Memory(0, [dir \in RenderDirs |-> Fresh(dm, ZeroF32)],
                        random_data(dm, seed), Fresh(dm, ZeroF32), dm)
        /\ encoder = <<>>
        /\ generation = 0
        /\ steps = 0
        /\ imports = 0
        /\ last_step = NoStep
        /\ last_import = NoImport
        /\ last_written = Id("None", 0)
        /\ trail = <<>>
        /\ rng = 4 * area(dm)
        /\ evaluations = bound.evaluated

\* The copier and the binder are not exercised on their own.
NoBench ==
    /\ chain = <<>>
    /\ bind_args = <<>>
    /\ bind_result = NoBind

\* The driver is used without the host program.
NoHost ==
    /\ pc = "api"
    /\ renderer = NoRenderer
    /\ frames = 0
    /\ waits = 0

\* No copy into a buffer and no dispatch is looked at on its own.
NoProbe ==
    /\ copyin = NoCopyin
    /\ tiles = NoTiles

Init ==
    /\ \E dm \in WindowSizes : new(dm, Seed)
    /\ NoBench
    /\ NoHost
    /\ NoProbe

\* ------------------------------------------------------------------------
\* Life::step, and the queue's execution of what it records.

\* self.dir()
dir == RenderDir_dir(frame_num)

\* The destination buffer of the current Phase in place of the source.
src_buf_is_destination == dst(cell_buffers, dir)

\* self.src_buf()
src_buf == src(cell_buffers, dir)

\* A step that advances the counter by two.
NextFrameSkips(n) == n + 2

\* self.frame_num += 1
NextFrame(n) == n + 1

\* A step built with the debugging copy switched on.
debug_on == TRUE

\* Life::step: let debug = false;
debug == FALSE

\* What a call did: whether its assertion failed, how many GPU buffers it
\* created, the commands it recorded, how many command buffers it submitted
\* to the queue, and the device memory afterwards.
Outcome(panicked, created, recorded, submitted, mem) ==
    [panicked |-> panicked, created |-> created, recorded |-> recorded,
     submitted |-> submitted, mem |-> mem]

\* Buffer2D::copyin_buf, the whole call: assert_eq!(src.dim(), self.dim()),
\* then a copy of area * size_of::<T>() bytes is recorded into the caller's
\* command encoder.  Nothing is created and nothing is submitted.
copyin_buf_call(self, from, mem) ==
    IF from.dim # self.dim
    THEN Outcome(TRUE, 0, <<>>, 0, mem)
    ELSE Outcome(FALSE, 0,
                 <<[op |-> "copy_buffer_to_buffer", src |-> from.buf.id,
                    dst |-> self.buf.id,
                    size |-> area(self.dim) * SizeOfF32]>>,
                 0, mem)

\* DebugBuffer::enqueue_copyin: self.buf.copyin_buf(command_encoder, buf).
\* A source of other dimensions fails the assertion of copyin_buf and
\* nothing is recorded; otherwise a copy of `from` into the debug buffer is
\* recorded into the caller's encoder.
enqueue_copyin(self, from, mem) == copyin_buf_call(self.buf, from, mem)

\* Life::step: the copies recorded ahead of the compute pass when the
\* counter is n.  The debug buffer and the cell buffers of a driver are
\* created with the same dimensions, by Life::new and by Life::resize.
step_copies(n) ==
    IF debug
    THEN enqueue_copyin(debug_buffer, src(cell_buffers, RenderDir_dir(n)),
                        gpu).recorded
    ELSE <<>>

\* cpass.dispatch(xgroups, ygroups, 1) of Life::step
step_dispatch(dm) == <<Groups(width(dm)), Groups(height(dm)), 1>>

\* Life::step: records one compute pass into the caller's encoder.
step ==
    /\ frame_num < MaxSteps
    /\ LET cmd == [dir |-> dir,
                   gen |-> generation,
                   pipeline |-> pipeline,
                   bind_group |-> bind_groups[dir],
                   dispatch |-> step_dispatch(dimensions),
                   copies |-> step_copies(frame_num)]
       IN  /\ encoder' = Append(encoder, cmd)
           /\ last_step' = cmd
    /\ frame_num' = NextFrame(frame_num)
    /\ steps' = steps + 1
    /\ trail' = <<>>
    /\ UNCHANGED <<pipeline, bind_groups, dimensions, cell_buffers,
                   random_buf, debug_buffer, gpu, generation, imports,
                   last_import, last_written, rng, evaluations, benchVars,
                   hostVars, probeVars>>

\* life.wgsl, entry point "life", with the identity as the transition rule:
\* invocation (x, y) inside the grid writes cell (x, y) of the destination
\* from cell (x, y) of the source; the others return.
\* Invocations k .. n - 1 are taken half by half, the second half on what
\* the first has written.
RECURSIVE LifeKernel(_, _, _, _, _, _)
LifeKernel(p, gx, k, n, from, to) ==
    IF k >= n THEN to
    ELSE IF n - k = 1
    THEN LET x == k % (gx * WORKGROUP_SIZE)
             y == k \div (gx * WORKGROUP_SIZE)
         IN  IF x >= p.width \/ y >= p.height
             THEN to
             ELSE Store(to, y * p.width + x,
                        Load(from, y * p.width + x, ZeroF32))
    ELSE CHOOSE out \in
            {LifeKernel(p, gx, mid, n, from, half) :
                mid \in {k + (n - k) \div 2},
                half \in {LifeKernel(p, gx, k, k + (n - k) \div 2,
                                     from, to)}} :
            TRUE

\* The buffer ids a recorded step binds to slots 0, 1 and 2.
SlotId(cmd, slot) == cmd.bind_group.entries[slot + 1].resource.id

\* A recorded step can still reach the driver's buffers when the buffers it
\* binds are the live ones; the buffers of a replaced generation are kept
\* alive only by the recorded work and nothing reads them again.
Live(cmd, mem) ==
    /\ SlotId(cmd, 0) \in DOMAIN mem
    /\ SlotId(cmd, 1) \in DOMAIN mem
    /\ SlotId(cmd, 2) \in DOMAIN mem

\* The execution of the copies recorded ahead of a step's compute pass.
RunCopies(cmd, mem) ==
    IF cmd.copies # <<>> /\ cmd.copies[1].src \in DOMAIN mem
                         /\ cmd.copies[1].dst \in DOMAIN mem
    THEN [mem EXCEPT ![cmd.copies[1].dst] = mem[cmd.copies[1].src]]
    ELSE mem

\* The execution of one recorded step.
Run(cmd, mem) ==
    IF Live(cmd, mem)
    THEN [RunCopies(cmd, mem) EXCEPT ![SlotId(cmd, 2)] =
            LifeKernel(mem[SlotId(cmd, 0)], cmd.dispatch[1], 0,
                       Invocations(cmd.dispatch),
                       mem[SlotId(cmd, 1)], mem[SlotId(cmd, 2)])]
    ELSE mem

\* The execution of the recorded steps, in the order recorded.
RECURSIVE Execute(_, _)
Execute(cmds, mem) ==
    IF cmds = <<>> THEN mem
    ELSE Execute(Tail(cmds), Run(Head(cmds), mem))

\* The buffer the last live step of cmds writes, `was` if there is none.
RECURSIVE LastWritten(_, _, _)
LastWritten(cmds, mem, was) ==
    IF cmds = <<>> THEN was
    ELSE LastWritten(Tail(cmds), mem,
            IF Live(Head(cmds), mem) THEN SlotId(Head(cmds), 2) ELSE was)

\* queue.submit(Some(command_encoder.finish())) by the caller of step.
submit ==
    /\ encoder # <<>>
    /\ gpu' = Execute(encoder, gpu)
    /\ last_written' = LastWritten(encoder, gpu, last_written)
    /\ encoder' = <<>>
    /\ trail' = <<>>
    /\ UNCHANGED <<pipeline, bind_groups, dimensions, cell_buffers,
                   random_buf, debug_buffer, frame_num, generation, steps,
                   imports, last_step, last_import, rng, evaluations,
                   benchVars, hostVars, probeVars>>

\* ------------------------------------------------------------------------
\* Life::import

\* The host data offered to import: every cell 1.0, or cell i = 10 + i.
HostData(dm) ==
    {[i \in 0..(area(dm) - 1) |-> 1], [i \in 0..(area(dm) - 1) |-> 10 + i]}

\* The number of elements of host data.
DataLen(cells) == Cardinality(DOMAIN cells)

\* Buffer2D::copyin_vec: the upload is submitted to the queue at once.
copyin_vec(self, data, mem) == [mem EXCEPT ![self.buf.id] = data]

\* An import that advances the step counter.
import_counting(cells) ==
    /\ imports < MaxImports
    /\ DataLen(cells) = area(src_buf.dim)
    /\ gpu' = copyin_vec(src_buf, cells, gpu)
    /\ imports' = imports + 1
    /\ frame_num' = frame_num + 1
    /\ last_import' = [frame |-> frame_num, gen |-> generation,
                       cells |-> cells, into |-> src_buf.buf.id.label]
    /\ trail' = <<>>
    /\ UNCHANGED <<pipeline, bind_groups, dimensions, cell_buffers,
                   random_buf, debug_buffer, encoder, generation,
                   steps, last_step, last_written, rng, evaluations,
                   benchVars, hostVars, probeVars>>

import(cells) ==
    /\ imports < MaxImports
    /\ DataLen(cells) = area(src_buf.dim)
    /\ gpu' = copyin_vec(src_buf, cells, gpu)
    /\ imports' = imports + 1
    /\ last_import' = [frame |-> frame_num, gen |-> generation,
                       cells |-> cells, into |-> src_buf.buf.id.label]
    /\ trail' = <<>>
    /\ UNCHANGED <<pipeline, bind_groups, dimensions, cell_buffers,
                   random_buf, debug_buffer, frame_num, encoder, generation,
                   steps, last_step, last_written, rng, evaluations,
                   benchVars, hostVars, probeVars>>

\* ------------------------------------------------------------------------
\* Life::resize

\* What the history keeps of one BufferCopier::copy.
Done(c) ==
    [params |-> c.params, groups |-> c.groups, cells |-> c.cells,
     param_data |-> c.param_data, bound |-> c.bound,
     src |-> c.src.buf.id, dst |-> c.dst.buf.id,
     wasm32 |-> c.wasm32, fill |-> c.fill, created |-> c.created,
     submitted |-> c.submitted]

\* No buffer: the source of an allocation, the target of a bind.
NoBuffer == Id("None", 0)

\* What one BufferCopier::copy writes, in order: on a wasm32 build the
\* upload of default values over the destination, then the kernel's copy.
CopyOps(c) ==
    [k \in 1..Len(c.fill) |->
        [op |-> "fill", src |-> c.fill[k].src, dst |-> c.fill[k].dst]]
    \o <<[op |-> "copy", src |-> c.src.buf.id, dst |-> c.dst.buf.id]>>

\* What Life::resize does, in the order of its statements: the new cell
\* buffers are created, each old cell buffer is copied, the new random
\* buffer is created, the old one is copied, the bind groups are built, the
\* pipeline, the bind groups, the dimensions, the cell buffers and the
\* random buffer of the driver are assigned, and last the new debug buffer
\* is created and assigned.
ResizeOrder(cells, cell_copy, random, rand_copy, bound, debugbuf) ==
    [k \in 1..Len(RenderDir_iterate) |->
        [op |-> "allocate", src |-> NoBuffer,
         dst |-> cells[RenderDir_iterate[k]].buf.id]]
    \o CopyOps(cell_copy[RenderDir_iterate[1]])
    \o CopyOps(cell_copy[RenderDir_iterate[2]])
    \o <<[op |-> "allocate", src |-> NoBuffer, dst |-> random.buf.id]>>
    \o CopyOps(rand_copy)
    \o [k \in 1..Len(RenderDir_iterate) |->
        [op |-> "bind",
         src |-> bound.bind_groups[RenderDir_iterate[k]].entries[2].resource.id,
         dst |-> bound.bind_groups[RenderDir_iterate[k]].entries[3].resource.id]]
    \o <<[op |-> "replace", src |-> NoBuffer, dst |-> NoBuffer],
         [op |-> "allocate", src |-> NoBuffer, dst |-> debugbuf.buf.buf.id]>>

\* Life::resize, as the driver and the device see it.
Life_resize(nd, wasm32) ==
    /\ generation < MaxResizes
    /\ LET gen == generation + 1
           cells == NewCellBuffers(gen, nd)
           cell_copy == [Forward |->
                           copy(src(cell_buffers, "Forward"),
                                src(cells, "Forward"),
                                gpu[src(cell_buffers, "Forward").buf.id],
                                Fresh(nd, ZeroF32), ZeroF32, wasm32),
                         Backward |->
                           copy(src(cell_buffers, "Backward"),
                                src(cells, "Backward"),
                                gpu[src(cell_buffers, "Backward").buf.id],
                                Fresh(nd, ZeroF32), ZeroF32, wasm32)]
           random == NewRandomBuf(gen, nd)
           rand_copy == copy(random_buf, random, gpu[random_buf.buf.id],
                             Fresh(nd, ZeroVec4), ZeroVec4, wasm32)
           bound == bind_up_dir("life",
                       [d \in RenderDirs |->
                           LifeArgs(LifeProg_params(gen), cells, random,
                                    LifeProg_texture(gen), d)])
       IN  /\ pipeline' = bound.pipeline
           /\ bind_groups' = bound.bind_groups
           /\ dimensions' = nd
           /\ cell_buffers' = cells
           /\ random_buf' = random
           /\ debug_buffer' = DebugBuffer_new(gen, nd)
           /\ gpu' = Memory(gen,
                        [d \in RenderDirs |-> cell_copy[d].cells],
                        rand_copy.cells, Fresh(nd, ZeroF32), nd)
           /\ generation' = gen
           /\ last_written' = IF last_written.label = "None" THEN last_written
                              ELSE Id(last_written.label, gen)
           /\ trail' = Append(trail,
                        [old_dim |-> dimensions,
                         new_dim |-> nd,
                         old_cells |-> [d \in RenderDirs |->
                                           gpu[cell_buffers[d].buf.id]],
                         old_random |-> gpu[random_buf.buf.id],
                         pending |-> Len(encoder),
                         cell_copy |-> [d \in RenderDirs |->
                                          Done(cell_copy[d])],
                         rand_copy |-> Done(rand_copy),
                         order |-> ResizeOrder(cells, cell_copy, random,
                                               rand_copy, bound,
                                               DebugBuffer_new(gen, nd))])
           /\ evaluations' = evaluations \o bound.evaluated
    /\ UNCHANGED <<frame_num, encoder, steps, imports, last_step,
                   last_import, rng, benchVars, probeVars>>

\* Life::resize called on its own, on a native build or a wasm32 one.
resize(nd) ==
    \E wasm32 \in BOOLEAN : Life_resize(nd, wasm32) /\ UNCHANGED hostVars

\* ------------------------------------------------------------------------

Next ==
    \/ step
    \/ submit
    \/ \E cells \in HostData(dimensions) : import(cells)
    \/ \E nd \in WindowSizes : resize(nd)

Spec == Init /\ [][Next]_vars

\* ------------------------------------------------------------------------
\* The host program: LifeProg (main.rs), Renderer (renderer.rs) and the
\* event loop (window.rs).

\* main.rs: for _ in 0..100 { life.step(&mut command_encoder); }
InitSteps == 100

\* Renderer::new: Sampler::new(&device, Repeat, Linear)
Renderer_sampler == Sampler(Id("sampler", 0))

\* Renderer::bind_up: every argument is bound for the fragment stage under
\* BindAccess::ReadSampled, binding idx from the idx-th argument.
Renderer_bind_up(bind_list) ==
    [layout |-> [i \in 1..Len(bind_list) |->
                    [binding |-> i - 1,
                     visibility |-> "FRAGMENT",
                     ty |-> binding_type(bind_list[i], "ReadSampled")]],
     entries |-> [i \in 1..Len(bind_list) |->
                    [binding |-> i - 1,
                     resource |-> binding_resource(bind_list[i])]]]

\* Renderer::new: binds params, texture and the sampler.
Renderer_new(params, texture) ==
    [bind_group |-> Renderer_bind_up(<<params, texture, Renderer_sampler>>),
     bound |-> 1]

\* A Renderer::resize that keeps the bind group it has.
Renderer_resize_keeps(self, params, texture) == self

\* Renderer::resize: binds the new params and texture and the old sampler.
Renderer_resize(self, params, texture) ==
    [bind_group |-> Renderer_bind_up(<<params, texture, Renderer_sampler>>),
     bound |-> self.bound + 1]

\* LifeProg::init up to the import: Life::new and Renderer::new have
\* returned.
InitHost ==
    /\ \E dm \in WindowSizes : new(dm, Seed)
    /\ renderer = Renderer_new(LifeProg_params(0), LifeProg_texture(0))
    /\ pc = "import"
    /\ frames = 0
    /\ waits = 0
    /\ NoBench
    /\ NoProbe

\* LifeProg::init: cell_data, one sample per cell from the same generator.
cell_data(dm, seed, drawn) ==
    [i \in 0..(area(dm) - 1) |-> Sample(seed, drawn + i)]

\* LifeProg::init: life.import(&device, &queue, &cell_data)
init_import ==
    /\ pc = "import"
    /\ LET cells == cell_data(dimensions, Seed, rng)
       IN  /\ gpu' = copyin_vec(src_buf, cells, gpu)
           /\ last_import' = [frame |-> frame_num, gen |-> generation,
                              cells |-> cells,
                              into |-> src_buf.buf.id.label]
    /\ rng' = rng + area(dimensions)
    /\ imports' = imports + 1
    /\ trail' = <<>>
    /\ pc' = "warmup"
    /\ UNCHANGED <<pipeline, bind_groups, dimensions, cell_buffers,
                   random_buf, debug_buffer, frame_num, encoder, generation,
                   steps, last_step, last_written, evaluations, renderer,
                   frames, waits, benchVars, probeVars>>

\* What Life::step records when the counter is n.
StepCommand(n) ==
    [dir |-> RenderDir_dir(n),
     gen |-> generation,
     pipeline |-> pipeline,
     bind_group |-> bind_groups[RenderDir_dir(n)],
     dispatch |-> step_dispatch(dimensions),
     copies |-> step_copies(n)]

\* The counter after k calls of Life::step: the calls are taken half by
\* half, each half being worked out before the next is begun.
RECURSIVE Advance(_, _)
Advance(n, k) ==
    IF k = 0 THEN n
    ELSE IF k = 1 THEN NextFrame(n)
    ELSE LET half == Advance(n, k \div 2)
         IN  IF half = n THEN Advance(n, k - k \div 2)
             ELSE Advance(half, k - k \div 2)

\* What k calls of Life::step record, the first when the counter is n.
StepCommands(n, k) == [i \in 1..k |-> StepCommand(Advance(n, i - 1))]

\* The execution of a long list of recorded steps, in the order recorded:
\* the first half, then the second on the memory the first half has left.
RECURSIVE ExecuteAll(_, _)
ExecuteAll(cmds, mem) ==
    IF Len(cmds) <= 1 THEN Execute(cmds, mem)
    ELSE CHOOSE out \in
            {ExecuteAll(second, half) :
                second \in {SubSeq(cmds, Len(cmds) \div 2 + 1, Len(cmds))},
                half \in {ExecuteAll(SubSeq(cmds, 1, Len(cmds) \div 2), mem)}} :
            TRUE

\* The buffer the last live step of a long list of recorded steps writes.
RECURSIVE LastWrittenAll(_, _, _)
LastWrittenAll(cmds, mem, was) ==
    IF Len(cmds) <= 1 THEN LastWritten(cmds, mem, was)
    ELSE LET h == Len(cmds) \div 2
             half == LastWrittenAll(SubSeq(cmds, 1, h), mem, was)
         IN  IF half = was
             THEN LastWrittenAll(SubSeq(cmds, h + 1, Len(cmds)), mem, was)
             ELSE LastWrittenAll(SubSeq(cmds, h + 1, Len(cmds)), mem, half)

\* LifeProg::init: InitSteps steps recorded into one encoder, which is then
\* submitted; init returns.  A native build goes on to a resize to the
\* size it already has, a wasm32 build goes into the event loop.
init_steps ==
    /\ pc = "warmup"
    /\ \E cmds \in {StepCommands(frame_num, InitSteps)} :
           /\ gpu' = ExecuteAll(cmds, gpu)
           /\ last_written' = LastWrittenAll(cmds, gpu, last_written)
           /\ last_step' = cmds[Len(cmds)]
    /\ frame_num' = Advance(frame_num, InitSteps)
    /\ steps' = steps + InitSteps
    /\ trail' = <<>>
    /\ pc' \in {"noop_resize", "loop"}
    /\ UNCHANGED <<pipeline, bind_groups, dimensions, cell_buffers,
                   random_buf, debug_buffer, encoder, generation, imports,
                   last_import, rng, evaluations, renderer, frames, waits,
                   benchVars, probeVars>>

\* LifeProg::resize: new params and texture, Life::resize, Renderer::resize.
LifeProg_resize(dm, wasm32) ==
    /\ Life_resize(dm, wasm32)
    /\ renderer' = Renderer_resize(renderer, LifeProg_params(generation + 1),
                                   LifeProg_texture(generation + 1))
    /\ frames' = frames
    /\ waits' = waits

\* window.rs: the resize a native build forces after init, to the size the
\* surface was configured with.
noop_resize ==
    /\ pc = "noop_resize"
    /\ LifeProg_resize(dimensions, FALSE)
    /\ pc' = "loop"

\* window.rs: WindowEvent::Resized(size); config takes size.max(1) in each
\* axis.
resized(size) ==
    /\ pc = "loop"
    /\ \E wasm32 \in BOOLEAN :
          LifeProg_resize(Dimensions(Max(width(size), 1),
                                     Max(height(size), 1)), wasm32)
    /\ pc' = pc

\* DebugBuffer::display, up to the end of its wait: map_async on the debug
\* buffer, then device.poll(Maintain::Wait) and, on a native build,
\* block_on of the mapping.  The host waits for the device once.
display_wait == waits' = waits + 1

\* DebugBuffer::display, the read-back of a native build: the mapped bytes
\* are copied into a Vec<u8> and bytemuck::cast_slice views them as f32.  The
\* Vec of a buffer of no cells is empty and its pointer is not aligned for
\* f32: cast_slice panics.  A wasm32 build reads nothing back, and neither
\* does a native build whose mapping failed (the Err arm of block_on).
display_panics(self, wasm32, mapped) ==
    ~wasm32 /\ mapped /\ area(self.buf.dim) = 0

\* DebugBuffer::display, the whole call: the wait, then on a native build
\* match block_on(buffer_future).  Err(e): the failure is printed, no cell
\* is printed and the buffer is not unmapped.  Ok: the cells are printed and
\* the buffer is unmapped, unless cast_slice panicked before.  `mapped` is
\* whether the mapping succeeded.  The contents of the buffer are left as
\* they were.
display(self, wasm32, mapped) ==
    LET read == ~wasm32 /\ mapped /\ ~display_panics(self, wasm32, mapped)
    IN  [waited |-> 1,
         panicked |-> display_panics(self, wasm32, mapped),
         failed |-> ~wasm32 /\ ~mapped,
         printed |-> IF read THEN area(self.buf.dim) ELSE 0,
         unmapped |-> read]

\* Life::dump_debug, which no path of the host program calls: display is
\* entered and the host blocks until the device has mapped the buffer.
dump_debug ==
    /\ pc = "api"
    /\ waits < MaxDumps
    /\ display_wait
    /\ pc' = "display"
    /\ UNCHANGED <<driverVars, benchVars, probeVars, renderer, frames>>

\* Life::dump_debug: after the wait, display reads the buffer back and
\* returns, or panics in cast_slice.
dump_debug_return ==
    /\ pc = "display"
    /\ \E wasm32 \in BOOLEAN, mapped \in BOOLEAN :
          pc' = IF display(debug_buffer, wasm32, mapped).panicked
                THEN "panicked"
                ELSE "api"
    /\ UNCHANGED <<driverVars, benchVars, probeVars, renderer, frames,
                   waits>>

\* The driver with its diagnostic read-back, used without the host program:
\* nothing else is called while dump_debug is blocked or after it panicked.
SpecDebug ==
    Init /\ [][\/ pc = "api" /\ (step \/ submit)
               \/ dump_debug
               \/ dump_debug_return]_vars

\* A frame that reads the debug buffer back after submitting.
render_dumping ==
    /\ pc = "loop"
    /\ frames < MaxFrames
    /\ LET cmd == StepCommand(frame_num)
       IN  /\ gpu' = Execute(<<cmd>>, gpu)
           /\ last_written' = LastWritten(<<cmd>>, gpu, last_written)
           /\ last_step' = cmd
    /\ frame_num' = NextFrame(frame_num)
    /\ steps' = steps + 1
    /\ frames' = frames + 1
    /\ waits' = waits + 1
    /\ trail' = <<>>
    /\ UNCHANGED <<pipeline, bind_groups, dimensions, cell_buffers,
                   random_buf, debug_buffer, encoder, generation, imports,
                   last_import, rng, evaluations, pc, renderer,
                   benchVars, probeVars>>

\* A frame whose encoder is left unsubmitted when render returns.
render_deferred ==
    /\ pc = "loop"
    /\ frames < MaxFrames
    /\ LET cmd == StepCommand(frame_num)
       IN  /\ encoder' = Append(encoder, cmd)
           /\ last_step' = cmd
    /\ frame_num' = NextFrame(frame_num)
    /\ steps' = steps + 1
    /\ frames' = frames + 1
    /\ trail' = <<>>
    /\ UNCHANGED <<pipeline, bind_groups, dimensions, cell_buffers,
                   random_buf, debug_buffer, gpu, last_written, generation,
                   imports, last_import, rng, evaluations, pc, renderer,
                   waits, benchVars, probeVars>>

\* LifeProg::render: one step and the render pass are recorded into a new
\* encoder, which is submitted.
render ==
    /\ pc = "loop"
    /\ frames < MaxFrames
    /\ LET cmd == StepCommand(frame_num)
       IN  /\ gpu' = Execute(<<cmd>>, gpu)
           /\ last_written' = LastWritten(<<cmd>>, gpu, last_written)
           /\ last_step' = cmd
    /\ frame_num' = NextFrame(frame_num)
    /\ steps' = steps + 1
    /\ frames' = frames + 1
    /\ trail' = <<>>
    /\ UNCHANGED <<pipeline, bind_groups, dimensions, cell_buffers,
                   random_buf, debug_buffer, encoder, generation, imports,
                   last_import, rng, evaluations, pc, renderer, waits,
                   benchVars, probeVars>>

NextHost ==
    \/ init_import
    \/ init_steps
    \/ noop_resize
    \/ \E size \in WindowSizes : resized(size)
    \/ render

SpecHost == InitHost /\ [][NextHost]_vars

\* ------------------------------------------------------------------------
\* BufferCopier::copy on its own: a buffer of any size and content, and the
\* buffers made from it by copying each into a newly created buffer.

\* The contents a first buffer is given: every cell 1.0, every cell 2.0, or
\* cell i = 10 + i.
Contents(dm) ==
    {[i \in 0..(area(dm) - 1) |-> 1],
     [i \in 0..(area(dm) - 1) |-> 2],
     [i \in 0..(area(dm) - 1) |-> 10 + i]}

NoCopy == [params |-> <<>>, groups |-> <<>>, cells |-> <<>>]

InitCopy ==
    /\ new(Dimensions(0, 0), Seed)
    /\ \E dm \in Dims : \E c \in Contents(dm) :
          chain = <<[buf |-> Buffer2D_new(Id("buffer", 0), "buffer", dm,
                                          SizeOfF32),
                     cells |-> c,
                     via |-> NoCopy]>>
    /\ bind_args = <<>>
    /\ bind_result = NoBind
    /\ NoHost
    /\ NoProbe

\* A new buffer of dimension nd is created and the last buffer is copied
\* into it.  The first copy goes to any dimension; each later one goes back
\* to the dimension of the buffer before the last, making a round trip, on
\* the same build as the first.
CopyInto(nd) ==
    /\ chain # <<>>
    /\ Len(chain) <= MaxCopies
    /\ Len(chain) >= 2 => nd = chain[Len(chain) - 1].buf.dim
    /\ \E wasm32 \in BOOLEAN :
          /\ Len(chain) >= 2 => wasm32 = chain[Len(chain)].via.wasm32
          /\ LET old == chain[Len(chain)]
                 nb == Buffer2D_new(Id("buffer", Len(chain)), "buffer", nd,
                                    SizeOfF32)
                 c == copy(old.buf, nb, old.cells, Fresh(nd, ZeroF32),
                           ZeroF32, wasm32)
             IN  chain' = Append(chain,
                             [buf |-> nb,
                              cells |-> c.cells,
                              via |-> Done(c)])
    /\ UNCHANGED <<driverVars, bind_args, bind_result, hostVars, probeVars>>

NextCopy == \E nd \in Dims : CopyInto(nd)

SpecCopy == InitCopy /\ [][NextCopy]_vars

\* ------------------------------------------------------------------------
\* Binder::bind_up on its own: an argument list of any of the resource
\* variants under any access mode.

SampleResources ==
    {Buffer(Id("uniform", 0), "Uniform", SizeOfParams),
     Buffer2D_new(Id("grid", 0), "grid", Dimensions(2, 2), SizeOfF32),
     Texture(Id("texture", 0), "R32Float"),
     Sampler(Id("sampler", 0))}

SampleArgs == {Arg(a, r) : a \in BindAccess, r \in SampleResources}

ArgLists == UNION {[1..n -> SampleArgs] : n \in 0..MaxArgs}

InitBind ==
    /\ new(Dimensions(0, 0), Seed)
    /\ chain = <<>>
    /\ bind_args \in ArgLists
    /\ bind_result = NoBind
    /\ NoHost
    /\ NoProbe

BindUp ==
    /\ bind_result = NoBind
    /\ bind_result' = bind_up("kernel", bind_args)
    /\ UNCHANGED <<driverVars, chain, bind_args, hostVars, probeVars>>

NextBind == BindUp

SpecBind == InitBind /\ [][NextBind]_vars

\* ------------------------------------------------------------------------
\* Buffer2D::copyin_vec and Buffer2D::copyin_buf on their own: a destination
\* buffer of any size, host data of any length, a source buffer of any size.

\* A copyin_vec without the assertion: it uploads as many elements as fit.
copyin_vec_call_truncating(self, data, mem) ==
    Outcome(FALSE, 1,
            <<[op |-> "copy_buffer_to_buffer", dst |-> self.buf.id]>>, 1,
            [mem EXCEPT ![self.buf.id] =
                [i \in DOMAIN @ |-> IF i \in DOMAIN data THEN data[i]
                                    ELSE @[i]]])

\* Buffer2D::copyin_vec, the whole call: assert_eq!(data.len(),
\* self.dim.area()), then the import buffer is created, the copy is recorded
\* into a new command encoder and the encoder is submitted.
copyin_vec_call(self, data, mem) ==
    IF DataLen(data) # area(self.dim)
    THEN Outcome(TRUE, 0, <<>>, 0, mem)
    ELSE Outcome(FALSE, 1,
                 <<[op |-> "copy_buffer_to_buffer", dst |-> self.buf.id]>>,
                 1, copyin_vec(self, data, mem))

\* Host data of n elements.
HostVec(n) == [i \in 0..(n - 1) |-> 50 + i]

\* The lengths of the host data: up to one more than the largest area.
DataLengths == 0..(MaxDim * MaxDim + 1)

InitCopyin ==
    /\ new(Dimensions(0, 0), Seed)
    /\ NoBench
    /\ NoHost
    /\ tiles = NoTiles
    /\ \E dm \in Dims :
          copyin = [op |-> "Ready",
                    dst |-> Buffer2D_new(Id("destination", 0), "destination",
                                         dm, SizeOfF32),
                    mem |-> (Id("destination", 0) :>
                                [i \in 0..(area(dm) - 1) |-> 10 + i])]

CopyinVec(n) ==
    /\ copyin.op = "Ready"
    /\ copyin' = [op |-> "copyin_vec",
                  dst |-> copyin.dst,
                  before |-> copyin.mem,
                  data |-> HostVec(n),
                  out |-> copyin_vec_call(copyin.dst, HostVec(n), copyin.mem)]
    /\ UNCHANGED <<driverVars, benchVars, hostVars, tiles>>

CopyinBuf(sd) ==
    /\ copyin.op = "Ready"
    /\ LET from == Buffer2D_new(Id("source", 0), "source", sd, SizeOfF32)
       IN  copyin' = [op |-> "copyin_buf",
                      dst |-> copyin.dst,
                      before |-> copyin.mem,
                      from |-> from,
                      out |-> copyin_buf_call(copyin.dst, from, copyin.mem)]
    /\ UNCHANGED <<driverVars, benchVars, hostVars, tiles>>

\* DebugBuffer::copyin_and_display, up to its submission: a command encoder
\* is created, enqueue_copyin records the copy into it, the encoder is
\* submitted and the queue runs the copy.  A source of other dimensions
\* fails the assertion before anything is submitted.
copyin_and_submit(self, from, mem) ==
    LET rec == enqueue_copyin(self, from, mem)
    IN  IF rec.panicked
        THEN Outcome(TRUE, 0, <<>>, 0, mem)
        ELSE Outcome(FALSE, 0, rec.recorded, 1,
                     RunCopies([copies |-> rec.recorded], mem))

\* DebugBuffer::copyin_and_display, the whole call: the submission, then
\* display, which may panic after the copy has been submitted and run.
copyin_and_display_call(self, from, mem, wasm32, mapped) ==
    LET sub == copyin_and_submit(self, from, mem)
    IN  IF sub.panicked THEN sub
        ELSE [sub EXCEPT
                !.panicked = display(self, wasm32, mapped).panicked]

\* DebugBuffer::copyin_and_display on a debug buffer of the destination's
\* size and a source buffer of any size, up to queue.submit.
CopyinAndDisplay(sd) ==
    /\ copyin.op = "Ready"
    /\ LET self == DebugBuffer_new(0, copyin.dst.dim)
           from == Buffer2D_new(Id("source", 0), "source", sd, SizeOfF32)
           mem == (self.buf.buf.id :> Fresh(copyin.dst.dim, ZeroF32))
                  @@ (from.buf.id :> HostVec(area(sd)))
           out == copyin_and_submit(self, from, mem)
       IN  copyin' = [op |-> IF out.panicked THEN "copyin_and_display"
                             ELSE "submitted",
                      dst |-> self.buf,
                      before |-> mem,
                      from |-> from,
                      out |-> out,
                      shown |-> <<>>]
    /\ UNCHANGED <<driverVars, benchVars, hostVars, tiles>>

\* DebugBuffer::copyin_and_display: self.display(device) blocks until the
\* device has mapped the debug buffer.
DisplayWait ==
    /\ copyin.op = "submitted"
    /\ copyin' = [copyin EXCEPT !.op = "waited"]
    /\ display_wait
    /\ UNCHANGED <<driverVars, benchVars, pc, renderer, frames, tiles>>

\* DebugBuffer::copyin_and_display: display reads the buffer back and the
\* call returns, or panics in cast_slice.
DisplayRead ==
    /\ copyin.op = "waited"
    /\ \E wasm32 \in BOOLEAN, mapped \in BOOLEAN :
          copyin' = [copyin EXCEPT
                        !.op = "copyin_and_display",
                        !.out = copyin_and_display_call(
                                   [buf |-> copyin.dst], copyin.from,
                                   copyin.before, wasm32, mapped),
                        !.shown = display([buf |-> copyin.dst], wasm32,
                                          mapped)]
    /\ UNCHANGED <<driverVars, benchVars, hostVars, tiles>>

NextCopyin ==
    \/ \E n \in DataLengths : CopyinVec(n)
    \/ \E sd \in Dims : CopyinBuf(sd)
    \/ \E sd \in Dims : CopyinAndDisplay(sd)
    \/ DisplayWait
    \/ DisplayRead

SpecCopyin == InitCopyin /\ [][NextCopyin]_vars

\* ------------------------------------------------------------------------
\* The dispatch size of Life::step over the whole range of u32.
\*
\* A u32 is kept as two 16-bit limbs, so that sums close to 2^32 are
\* computed exactly.

LimbBase == 2 ^ 16

U32(hi, lo) == [hi |-> hi, lo |-> lo]

\* The u32 of a small natural number.
u32_of(n) == U32(n \div LimbBase, n % LimbBase)

\* a + b in u32: the sum modulo 2^32, and whether it left the range.
u32_add(a, b) ==
    LET lo == a.lo + b.lo
        hi == a.hi + b.hi + lo \div LimbBase
    IN  [value |-> U32(hi % LimbBase, lo % LimbBase),
         overflow |-> hi >= LimbBase]

\* a - b in u32: the difference modulo 2^32, and whether it left the range.
u32_sub(a, b) ==
    LET borrow == IF a.lo < b.lo THEN 1 ELSE 0
        lo == a.lo + borrow * LimbBase - b.lo
        hi == a.hi - b.hi - borrow
    IN  [value |-> U32(hi % LimbBase, lo),
         overflow |-> hi < 0]

\* a / d in u32, for a small divisor d > 0.
u32_div(a, d) ==
    U32(a.hi \div d, ((a.hi % d) * LimbBase + a.lo) \div d)

\* A dispatch size that divides without rounding up.
step_groups_floor(n, overflow_checks) ==
    [panicked |-> FALSE, groups |-> u32_div(n, WORKGROUP_SIZE)]

\* Life::step: dim + WORKGROUP_SIZE - 1, then / WORKGROUP_SIZE, in u32.  With
\* overflow checks (a debug build) a sum or difference that leaves the range
\* panics; without them (a release build) it wraps.
step_groups(n, overflow_checks) ==
    LET sum == u32_add(n, u32_of(WORKGROUP_SIZE))
        dim == u32_sub(sum.value, u32_of(1))
    IN  IF overflow_checks /\ (sum.overflow \/ dim.overflow)
        THEN [panicked |-> TRUE, groups |-> u32_of(0)]
        ELSE [panicked |-> FALSE, groups |-> u32_div(dim.value, WORKGROUP_SIZE)]

\* The grid extents tried: the smallest, the largest, and those on either
\* side of a limb.
GridExtents ==
    {u32_of(k) : k \in 0..(2 * WORKGROUP_SIZE + 1)}
    \cup {U32(LimbBase - 1, LimbBase - 1 - k) : k \in 0..(WORKGROUP_SIZE + 1)}
    \cup {U32(0, LimbBase - 1), U32(1, 0), U32(1, 1)}

InitTiles ==
    /\ new(Dimensions(0, 0), Seed)
    /\ NoBench
    /\ NoHost
    /\ copyin = NoCopyin
    /\ \E w \in GridExtents : \E h \in GridExtents :
          tiles = [op |-> "Ready", w |-> w, h |-> h]

\* Life::step on a grid of tiles.w x tiles.h: the compute pass it dispatches.
StepTiles(overflow_checks) ==
    /\ tiles.op = "Ready"
    /\ LET x == step_groups(tiles.w, overflow_checks)
           y == step_groups(tiles.h, overflow_checks)
       IN  tiles' = [op |-> "step", w |-> tiles.w, h |-> tiles.h,
                     overflow_checks |-> overflow_checks,
                     panicked |-> x.panicked \/ y.panicked,
                     xgroups |-> x.groups,
                     ygroups |-> y.groups]
    /\ UNCHANGED <<driverVars, benchVars, hostVars, copyin>>

\* BufferCopier::copy: (params.width + WORKGROUP_SIZE.0 - 1) /
\* WORKGROUP_SIZE.0, in u32, with or without overflow checks.
copy_groups(n, overflow_checks) ==
    LET sum == u32_add(n, u32_of(WORKGROUP_SIZE))
        dim == u32_sub(sum.value, u32_of(1))
    IN  IF overflow_checks /\ (sum.overflow \/ dim.overflow)
        THEN [panicked |-> TRUE, groups |-> u32_of(0)]
        ELSE [panicked |-> FALSE, groups |-> u32_div(dim.value, WORKGROUP_SIZE)]

\* BufferCopier::copy with an overlap of tiles.w x tiles.h: the compute pass
\* it dispatches, and whether any invocation gets past the kernel's bounds
\* check to write a cell of the destination.
CopyTiles(overflow_checks) ==
    /\ tiles.op = "Ready"
    /\ LET x == copy_groups(tiles.w, overflow_checks)
           y == copy_groups(tiles.h, overflow_checks)
           panicked == x.panicked \/ y.panicked
       IN  tiles' = [op |-> "copy", w |-> tiles.w, h |-> tiles.h,
                     overflow_checks |-> overflow_checks,
                     panicked |-> panicked,
                     xgroups |-> x.groups,
                     ygroups |-> y.groups,
                     writes |-> /\ ~panicked
                                /\ x.groups # u32_of(0)
                                /\ y.groups # u32_of(0)
                                /\ tiles.w # u32_of(0)
                                /\ tiles.h # u32_of(0)]
    /\ UNCHANGED <<driverVars, benchVars, hostVars, copyin>>

NextTiles ==
    \/ \E overflow_checks \in BOOLEAN : StepTiles(overflow_checks)
    \/ \E overflow_checks \in BOOLEAN : CopyTiles(overflow_checks)

SpecTiles == InitTiles /\ [][NextTiles]_vars

\* ------------------------------------------------------------------------
\* Properties.

\* The Phase of a step count: Forward for an even count, Backward for an odd.
PhaseOf(n) == IF n % 2 = 0 THEN "Forward" ELSE "Backward"

\* Every cell of cells equals v.
Uniform(cells, v) == \A k \in DOMAIN cells : cells[k] = v

\* Integer division truncating toward zero.
TruncDiv(a, b) == IF a >= 0 THEN a \div b ELSE 0 - ((0 - a) \div b)

\* The last resize of the trail.
LastResize == trail[Len(trail)]

\* C1: after N calls of Life::step on a fresh driver the counter is N, dir()
\* is the Phase of N (Forward for even N, Backward for odd N), and the call
\* that made the count N recorded the binding set of the Phase of N - 1.
C1_StepPhase ==
    /\ frame_num = steps
    /\ dir = PhaseOf(steps)
    /\ steps > 0 =>
        /\ last_step.dir = PhaseOf(steps - 1)
        /\ last_step.gen = generation =>
              last_step.bind_group = bind_groups[PhaseOf(steps - 1)]

\* Three steps have been taken: dir() is Backward and the third step used
\* the Forward binding set.
C1_Witness ==
    /\ steps = 3
    /\ dir = "Backward"
    /\ last_step.dir = "Forward"
    /\ last_step.bind_group = bind_groups["Forward"]

\* C2: for every copy from a W x H buffer into a W' x H' buffer, copy_params
\* yields overlap min(W,W') x min(H,H'), old offsets max(0,(W-W')/2) and
\* max(0,(H-H')/2), new offsets max(0,(W'-W)/2) and max(0,(H'-H)/2), the
\* divisions truncating toward zero.
C2_CopyParams ==
    \A i \in 2..Len(chain) :
        LET W == width(chain[i - 1].buf.dim)
            H == height(chain[i - 1].buf.dim)
            W2 == width(chain[i].buf.dim)
            H2 == height(chain[i].buf.dim)
            p == chain[i].via.params
        IN  /\ p.width = Min(W, W2)
            /\ p.height = Min(H, H2)
            /\ p.odx = Max(0, TruncDiv(W - W2, 2))
            /\ p.ndx = Max(0, TruncDiv(W2 - W, 2))
            /\ p.ody = Max(0, TruncDiv(H - H2, 2))
            /\ p.ndy = Max(0, TruncDiv(H2 - H, 2))

\* A round trip (1,4) -> (4,4) -> (1,4): the first copy has W < W' and
\* H = H', the second W > W'; both offsets are the truncated half of 3.
C2_Witness ==
    /\ Len(chain) = 3
    /\ chain[1].buf.dim = <<1, 4>>
    /\ chain[2].buf.dim = <<4, 4>>
    /\ chain[3].buf.dim = <<1, 4>>
    /\ chain[2].via.params.ndx = 1
    /\ chain[2].via.params.ody = 0
    /\ chain[3].via.params.odx = 1
    /\ chain[3].via.params.width = 1

\* C3: a copy from a W x H buffer whose every cell is V into a new buffer of
\* dimension W' <= W, H' <= H leaves every one of the W' x H' cells equal
\* to V.
C3_UniformShrink ==
    \A i \in 2..Len(chain) : \A v \in {1, 2} :
        LET old == chain[i - 1]
            now == chain[i]
        IN  (/\ Uniform(old.cells, v)
             /\ width(now.buf.dim) <= width(old.buf.dim)
             /\ height(now.buf.dim) <= height(old.buf.dim))
            => /\ DOMAIN now.cells = 0..(area(now.buf.dim) - 1)
               /\ Uniform(now.cells, v)

\* A 4 x 3 buffer of 2.0 has been copied into a 2 x 2 buffer.
C3_Witness ==
    /\ Len(chain) = 2
    /\ chain[1].buf.dim = <<4, 3>>
    /\ Uniform(chain[1].cells, 2)
    /\ chain[2].buf.dim = <<2, 2>>
    /\ chain[2].cells = [k \in 0..3 |-> 2]

\* C4: a copy from a W x H buffer whose every cell is V into a new buffer of
\* dimension W' > W, H' > H leaves V in every cell of columns
\* (W'-W)/2 .. (W'-W)/2 + W - 1 and rows (H'-H)/2 .. (H'-H)/2 + H - 1.
C4_UniformGrow ==
    \A i \in 2..Len(chain) : \A v \in {1, 2} :
        LET old == chain[i - 1]
            now == chain[i]
            W == width(old.buf.dim)
            H == height(old.buf.dim)
            W2 == width(now.buf.dim)
            H2 == height(now.buf.dim)
            nx == (W2 - W) \div 2
            ny == (H2 - H) \div 2
        IN  (Uniform(old.cells, v) /\ W2 > W /\ H2 > H)
            => \A x \in nx..(nx + W - 1) : \A y \in ny..(ny + H - 1) :
                  now.cells[y * W2 + x] = v

\* A 2 x 1 buffer of 1.0 has been copied into a 3 x 4 buffer: it lies in
\* columns 0..1 of row 1, and the rest of the new buffer is not 1.0.
C4_Witness ==
    /\ Len(chain) = 2
    /\ chain[1].buf.dim = <<2, 1>>
    /\ Uniform(chain[1].cells, 1)
    /\ chain[2].buf.dim = <<3, 4>>
    /\ chain[2].cells[3] = 1
    /\ chain[2].cells[4] = 1
    /\ chain[2].cells[0] = 0
    /\ chain[2].cells[5] = 0

\* C5: after a copy from W x H down to W' <= W, H' <= H and a copy back up
\* to W x H, every cell of columns (W-W')/2 .. (W-W')/2 + W' - 1 and rows
\* (H-H')/2 .. (H-H')/2 + H' - 1 holds the value it held at first.
C5_ShrinkGrow ==
    \A i \in 3..Len(chain) :
        LET W == width(chain[i - 2].buf.dim)
            H == height(chain[i - 2].buf.dim)
            W2 == width(chain[i - 1].buf.dim)
            H2 == height(chain[i - 1].buf.dim)
            ox == (W - W2) \div 2
            oy == (H - H2) \div 2
        IN  (chain[i].buf.dim = chain[i - 2].buf.dim /\ W2 <= W /\ H2 <= H)
            => \A x \in ox..(ox + W2 - 1) : \A y \in oy..(oy + H2 - 1) :
                  chain[i].cells[y * W + x] = chain[i - 2].cells[y * W + x]

\* (4,4) -> (3,3) -> (4,4) on a buffer whose cells all differ: the cells of
\* columns 0..2 and rows 0..2 are back, the border cells are not.
C5_Witness ==
    /\ Len(chain) = 3
    /\ chain[1].buf.dim = <<4, 4>>
    /\ chain[1].cells = [k \in 0..15 |-> 10 + k]
    /\ chain[2].buf.dim = <<3, 3>>
    /\ chain[3].buf.dim = <<4, 4>>
    /\ chain[3].cells[10] = 20
    /\ chain[3].cells[3] # 13
    /\ chain[3].cells[15] # 25

\* C6: bind_up of a list of N arguments yields a layout and a bind group
\* whose entry of binding index i is built from the i-th argument, and
\* bind_up of the list permuted yields the entries permuted the same way.
C6_BindOrder ==
    bind_result.called =>
        LET n == Len(bind_args)
            layout == bind_result.pipeline.layout
            entries == bind_result.bind_group.entries
        IN  /\ DOMAIN layout = 1..n
            /\ DOMAIN entries = 1..n
            /\ bind_result.bind_group.layout = layout
            /\ \A i \in 1..n :
                  /\ layout[i].binding = i - 1
                  /\ layout[i].ty = binding_type(bind_args[i].res,
                                                 bind_args[i].access)
                  /\ entries[i].binding = i - 1
                  /\ entries[i].resource = binding_resource(bind_args[i].res)
            /\ \A pi \in Permutations(1..n) :
                  LET r == bind_up("kernel", [j \in 1..n |-> bind_args[pi[j]]])
                  IN  \A j \in 1..n :
                        /\ r.pipeline.layout[j].binding = j - 1
                        /\ r.pipeline.layout[j].ty = layout[pi[j]].ty
                        /\ r.bind_group.entries[j].binding = j - 1
                        /\ r.bind_group.entries[j].resource
                              = entries[pi[j]].resource

\* bind_up has bound a texture, a storage buffer and a sampler, in that
\* order, to binding indices 0, 1 and 2.
C6_Witness ==
    /\ bind_result.called
    /\ Len(bind_args) = 3
    /\ bind_args[1].res.kind = "Texture"
    /\ bind_args[2].res.kind = "Buffer2D"
    /\ bind_args[3].res.kind = "Sampler"
    /\ bind_result.bind_group.entries[1].resource.resource = "TextureView"
    /\ bind_result.bind_group.entries[3].binding = 2

\* The scenario of C7 after its steps: a 4 x 4 driver, never resized, into
\* which all cells 1.0 were imported before any step, stepped three times,
\* the steps submitted.
C7_Stepped ==
    /\ generation = 0
    /\ dimensions = <<4, 4>>
    /\ last_import.frame = 0
    /\ last_import.cells = [k \in 0..15 |-> 1]
    /\ steps = 3
    /\ encoder = <<>>

\* The scenario of C7 after its resize: the driver of C7_Stepped has just
\* been resized to 2 x 2.
C7_Resized ==
    /\ generation = 1
    /\ Len(trail) = 1
    /\ trail[1].old_dim = <<4, 4>>
    /\ trail[1].new_dim = <<2, 2>>
    /\ trail[1].pending = 0
    /\ last_import.frame = 0
    /\ last_import.gen = 0
    /\ last_import.cells = [k \in 0..15 |-> 1]
    /\ steps = 3

\* C7 as stated: in the scenario dir() is Backward (Phase 1) and the buffer
\* that is not the current source holds the generation written last; after
\* the resize to 2 x 2 the buffers are entirely 1.0.
C7_AsStated ==
    /\ C7_Stepped =>
          /\ dir = "Backward"
          /\ last_written = dst(cell_buffers, dir).buf.id
    /\ C7_Resized =>
          \A d \in RenderDirs :
              gpu[cell_buffers[d].buf.id] = [k \in 0..3 |-> 1]

\* C7 as amended: in the scenario dir() is Backward (Phase 1) and the current
\* source buffer, the one the next step reads, is the buffer the last step
\* wrote and holds 1.0 in every cell; after the resize to 2 x 2 both cell
\* buffers are entirely 1.0.
C7_Scenario ==
    /\ C7_Stepped =>
          /\ dir = "Backward"
          /\ last_written = src_buf.buf.id
          /\ last_written # dst(cell_buffers, dir).buf.id
          /\ gpu[src_buf.buf.id] = [k \in 0..15 |-> 1]
    /\ C7_Resized =>
          /\ dir = "Backward"
          /\ \A d \in RenderDirs :
                /\ cell_buffers[d].dim = <<2, 2>>
                /\ gpu[cell_buffers[d].buf.id] = [k \in 0..3 |-> 1]

\* The scenario has run to its end.
C7_Witness == C7_Resized /\ dimensions = <<2, 2>>

\* C8: in every state the recorded dimensions, both cell buffers, the random
\* buffer, the debug buffer, both binding sets and the device memory belong
\* to one generation: the buffers have the recorded dimensions (after a
\* resize, the dimensions passed to it) and the sizes that go with them, and
\* the binding sets bind the buffers of that generation and no others.
C8_OneGeneration ==
    /\ \A d \in RenderDirs :
          /\ cell_buffers[d].dim = dimensions
          /\ cell_buffers[d].buf.id.gen = generation
          /\ cell_buffers[d].buf.size = area(dimensions) * SizeOfF32
          /\ DOMAIN gpu[cell_buffers[d].buf.id] = 0..(area(dimensions) - 1)
    /\ random_buf.dim = dimensions
    /\ random_buf.buf.id.gen = generation
    /\ random_buf.buf.size = area(dimensions) * SizeOfVec4U32
    /\ DOMAIN gpu[random_buf.buf.id] = 0..(area(dimensions) - 1)
    /\ debug_buffer.buf.dim = dimensions
    /\ debug_buffer.buf.buf.id.gen = generation
    /\ \A id \in DOMAIN gpu : id.gen = generation
    /\ \A d \in RenderDirs :
          /\ DOMAIN bind_groups[d].entries = 1..5
          /\ \A i \in 1..5 :
                bind_groups[d].entries[i].resource.id.gen = generation
          /\ {bind_groups[d].entries[2].resource.id,
              bind_groups[d].entries[3].resource.id}
                = {cell_buffers[e].buf.id : e \in RenderDirs}
          /\ bind_groups[d].entries[4].resource.id = random_buf.buf.id
          /\ bind_groups[d].layout[4].ty.min_binding_size
                = random_buf.buf.size
          /\ bind_groups[d].layout[2].ty.min_binding_size
                = cell_buffers[d].buf.size
    /\ trail # <<>> => dimensions = LastResize.new_dim

\* A driver that has taken a step has just been resized to another dimension.
C8_Witness ==
    /\ generation = 1
    /\ trail # <<>>
    /\ LastResize.old_dim # dimensions
    /\ steps > 0

\* C9: for each Phase p the binding set of p binds src(p) to slot 1 and
\* dst(p) to slot 2, src(p) and dst(p) are different buffers, src(Forward) is
\* dst(Backward) and dst(Forward) is src(Backward); the buffer the last step
\* wrote is the buffer the next step reads.
C9_SourceDestination ==
    /\ \A p \in RenderDirs :
          /\ bind_groups[p].entries[2].binding = 1
          /\ bind_groups[p].entries[2].resource.id
                = src(cell_buffers, p).buf.id
          /\ bind_groups[p].entries[3].binding = 2
          /\ bind_groups[p].entries[3].resource.id
                = dst(cell_buffers, p).buf.id
          /\ src(cell_buffers, p).buf.id # dst(cell_buffers, p).buf.id
    /\ src(cell_buffers, "Forward") = dst(cell_buffers, "Backward")
    /\ dst(cell_buffers, "Forward") = src(cell_buffers, "Backward")
    /\ (steps > 0 /\ last_step.gen = generation) =>
          /\ SlotId(last_step, 1) = src(cell_buffers, PhaseOf(steps - 1)).buf.id
          /\ SlotId(last_step, 2) = bind_groups[dir].entries[2].resource.id
          /\ SlotId(last_step, 2) = src_buf.buf.id

\* A resized driver has taken two steps since: the second wrote the Forward
\* buffer, which the third will read.
C9_Witness ==
    /\ generation = 1
    /\ steps = 2
    /\ last_step.gen = 1
    /\ last_step.dir = "Backward"
    /\ SlotId(last_step, 2) = cell_buffers["Forward"].buf.id

\* C10: a resize to a dimension of zero width or height completes: each
\* copy's overlap is zero in that axis, its dispatch has zero work groups in
\* that axis and so no invocation, no cell is copied, and the driver is left
\* with buffers of the new dimension, of size zero and without cells.
C10_ZeroArea ==
    (trail # <<>> /\ area(LastResize.new_dim) = 0) =>
        LET nd == LastResize.new_dim
            copies == {LastResize.cell_copy["Forward"],
                       LastResize.cell_copy["Backward"],
                       LastResize.rand_copy}
        IN  /\ \A c \in copies :
                  /\ width(nd) = 0 =>
                        (c.params.width = 0 /\ c.groups[1] = 0)
                  /\ height(nd) = 0 =>
                        (c.params.height = 0 /\ c.groups[2] = 0)
                  /\ Invocations(c.groups) = 0
                  /\ DOMAIN c.cells = {}
            /\ dimensions = nd
            /\ \A d \in RenderDirs :
                  /\ cell_buffers[d].dim = nd
                  /\ cell_buffers[d].buf.size = 0
                  /\ cell_buffers[d].buf.id.gen = generation
                  /\ DOMAIN gpu[cell_buffers[d].buf.id] = {}
            /\ random_buf.dim = nd
            /\ random_buf.buf.size = 0
            /\ DOMAIN gpu[random_buf.buf.id] = {}

\* A 4 x 4 driver holding imported cells has just been resized to 0 x 4.
C10_Witness ==
    /\ trail # <<>>
    /\ LastResize.old_dim = <<4, 4>>
    /\ LastResize.new_dim = <<0, 4>>
    /\ LastResize.old_cells["Forward"] = [k \in 0..15 |-> 1]
    /\ dimensions = <<0, 4>>

\* C11: copyin_vec with host data whose length differs from width * height,
\* and copyin_buf with a source whose dimensions differ from the
\* destination's, fail their assertion with no buffer created, no command
\* recorded and nothing submitted, and leave the destination as it was; calls
\* whose sizes agree go through, and copyin_vec then stores exactly the data.
C11_SizeMismatch ==
    /\ copyin.op = "copyin_vec" =>
          IF DataLen(copyin.data) # area(copyin.dst.dim)
          THEN copyin.out = Outcome(TRUE, 0, <<>>, 0, copyin.before)
          ELSE /\ ~copyin.out.panicked
               /\ copyin.out.submitted = 1
               /\ copyin.out.mem[copyin.dst.buf.id] = copyin.data
    /\ copyin.op = "copyin_buf" =>
          IF copyin.from.dim # copyin.dst.dim
          THEN copyin.out = Outcome(TRUE, 0, <<>>, 0, copyin.before)
          ELSE /\ ~copyin.out.panicked
               /\ Len(copyin.out.recorded) = 1
               /\ copyin.out.recorded[1].size
                     = area(copyin.dst.dim) * SizeOfF32

\* copyin_vec was handed three elements for a 2 x 2 buffer: it failed and
\* the buffer still holds its four cells.
C11_Witness ==
    /\ copyin.op = "copyin_vec"
    /\ copyin.dst.dim = <<2, 2>>
    /\ DataLen(copyin.data) = 3
    /\ copyin.out.panicked
    /\ copyin.out.created = 0
    /\ copyin.out.mem[copyin.dst.buf.id] = [i \in 0..3 |-> 10 + i]


\* A Buffer or a Buffer2D: a resource without a sampled access mode.
LinearBuffer(res) == res.kind \in {"Buffer", "Buffer2D"}

\* C12: a binding that asks for ReadSampled access to a Buffer or a Buffer2D
\* is rejected when it is constructed: Binder::bind_up never returns a
\* pipeline and a bind group for an argument list that holds one.
C12_SampledBufferRejected ==
    bind_result.called =>
        \A i \in 1..Len(bind_args) :
            ~(LinearBuffer(bind_args[i].res)
              /\ bind_args[i].access = "ReadSampled")

\* bind_up has built a binding for a storage Buffer2D under ReadSampled, and
\* its layout entry is the one ReadOnly gets.
C12_Witness ==
    /\ bind_result.called
    /\ Len(bind_args) = 1
    /\ bind_args[1].res.kind = "Buffer2D"
    /\ bind_args[1].access = "ReadSampled"
    /\ bind_result.pipeline.layout[1].ty.read_only
    /\ bind_result.pipeline.layout[1].ty
          = binding_type(bind_args[1].res, "ReadOnly")

\* C13: in both binding sets of the driver, at construction and after every
\* resize, binding 0 is the parameters buffer read-only, binding 1 the source
\* cell buffer of the Phase read-only, binding 2 the destination cell buffer
\* of the Phase write-only, binding 3 the random buffer write-only and
\* binding 4 the output texture write-only.
C13_LifeSlots ==
    \A d \in RenderDirs :
        LET g == bind_groups[d]
        IN  /\ DOMAIN g.entries = 1..5
            /\ DOMAIN g.layout = 1..5
            /\ \A i \in 1..5 :
                  g.entries[i].binding = i - 1 /\ g.layout[i].binding = i - 1
            /\ g.entries[1].resource
                  = binding_resource(LifeProg_params(generation))
            /\ g.layout[1].ty
                  = binding_type(LifeProg_params(generation), "ReadOnly")
            /\ g.layout[1].ty.ty = "Uniform"
            /\ g.entries[2].resource
                  = binding_resource(src(cell_buffers, d))
            /\ g.layout[2].ty
                  = binding_type(src(cell_buffers, d), "ReadOnly")
            /\ g.layout[2].ty.read_only
            /\ g.entries[3].resource
                  = binding_resource(dst(cell_buffers, d))
            /\ g.layout[3].ty
                  = binding_type(dst(cell_buffers, d), "WriteOnly")
            /\ ~g.layout[3].ty.read_only
            /\ g.entries[4].resource = binding_resource(random_buf)
            /\ g.layout[4].ty = binding_type(random_buf, "WriteOnly")
            /\ ~g.layout[4].ty.read_only
            /\ g.entries[5].resource
                  = binding_resource(LifeProg_texture(generation))
            /\ g.layout[5].ty
                  = binding_type(LifeProg_texture(generation), "WriteOnly")
            /\ g.layout[5].ty.binding = "StorageTexture"
            /\ g.layout[5].ty.access = "WriteOnly"

\* The Backward binding set of a driver resized to 3 x 3 binds the Backward
\* buffer of the new generation to binding 1 and the Forward one to binding 2.
C13_Witness ==
    /\ generation = 1
    /\ dimensions = <<3, 3>>
    /\ bind_groups["Backward"].entries[2].resource.id
          = Id(CellLabel("Backward"), 1)
    /\ bind_groups["Backward"].entries[3].resource.id
          = Id(CellLabel("Forward"), 1)
    /\ bind_groups["Backward"].entries[4].resource.id = Id("random data", 1)

\* C14: every copy binds, at binding 0, a uniform buffer of eight u32 words
\* holding oldOffsetX, oldOffsetY, newOffsetX, newOffsetY, oldWidth, newWidth,
\* overlapWidth, overlapHeight in this order, oldWidth and newWidth being the
\* widths of the source and of the destination; at binding 1 the source
\* buffer read-only; at binding 2 the destination buffer write-only.
C14_CopySlots ==
    \A i \in 2..Len(chain) :
        LET from == chain[i - 1].buf
            to == chain[i].buf
            c == chain[i].via
            p == c.params
            g == c.bound.bind_group
        IN  /\ c.param_data = <<p.odx, p.ody, p.ndx, p.ndy,
                                width(from.dim), width(to.dim),
                                p.width, p.height>>
            /\ \A k \in 1..8 : c.param_data[k] \in 0..MaxDim
            /\ DOMAIN g.entries = 1..3
            /\ \A k \in 1..3 :
                  g.entries[k].binding = k - 1 /\ g.layout[k].binding = k - 1
            /\ g.entries[1].resource.id.label = "copy data parameters"
            /\ g.layout[1].ty.ty = "Uniform"
            /\ g.layout[1].ty.min_binding_size = 8 * 4
            /\ g.entries[2].resource = binding_resource(from)
            /\ g.layout[2].ty = binding_type(from, "ReadOnly")
            /\ g.layout[2].ty.read_only
            /\ g.entries[3].resource = binding_resource(to)
            /\ g.layout[3].ty = binding_type(to, "WriteOnly")
            /\ ~g.layout[3].ty.read_only

\* A copy from 4 x 1 into 1 x 3: the eight words are 1, 0, 0, 1, 4, 1, 1, 1.
C14_Witness ==
    /\ Len(chain) = 2
    /\ chain[1].buf.dim = <<4, 1>>
    /\ chain[2].buf.dim = <<1, 3>>
    /\ chain[2].via.param_data = <<1, 0, 0, 1, 4, 1, 1, 1>>
    /\ chain[2].via.bound.bind_group.entries[3].resource.id = Id("buffer", 1)

\* C15: the host constructs the driver, imports once before any step, takes
\* its steps only afterwards, one per rendered frame once init's InitSteps
\* steps are done; and whenever the driver has been resized the Renderer has
\* been bound again, in the same handler, to the parameters buffer and the
\* texture that the driver's binding sets reference.
C15_HostOrder ==
    /\ pc \in {"import", "warmup", "noop_resize", "loop"}
    /\ pc = "import" => (imports = 0 /\ steps = 0 /\ generation = 0)
    /\ pc = "warmup" => (imports = 1 /\ steps = 0 /\ generation = 0)
    /\ imports > 0 => (last_import.frame = 0 /\ last_import.gen = 0)
    /\ pc \in {"noop_resize", "loop"} =>
          /\ imports = 1
          /\ steps = InitSteps + frames
          /\ frame_num = steps
    /\ renderer.bound = generation + 1
    /\ \A d \in RenderDirs :
          /\ renderer.bind_group.entries[1].resource
                = bind_groups[d].entries[1].resource
          /\ renderer.bind_group.entries[2].resource
                = bind_groups[d].entries[5].resource

\* A frame has been rendered after a resize to another size: the Renderer
\* and the driver both reference the parameters and the texture made for
\* that resize.
C15_Witness ==
    /\ pc = "loop"
    /\ generation = 1
    /\ frames = 2
    /\ trail = <<>>
    /\ dimensions = <<1, 4>>
    /\ renderer.bound = 2
    /\ renderer.bind_group.entries[1].resource.id = Id("Life parameters", 1)
    /\ renderer.bind_group.entries[2].resource.id = Id("texture", 1)
    /\ bind_groups["Forward"].entries[5].resource.id = Id("texture", 1)

\* Per-cell random data drawn from the generator after `drawn` samples.
random_data_from(dm, seed, drawn) ==
    [i \in 0..(area(dm) - 1) |->
        <<Sample(seed, drawn + 4 * i), Sample(seed, drawn + 4 * i + 1),
          Sample(seed, drawn + 4 * i + 2), Sample(seed, drawn + 4 * i + 3)>>]

\* C16: every resize draws from the injected random source and refills the
\* per-cell random data of the new buffer with what it drew.
C16_ResizeRefills ==
    [][generation' # generation =>
          /\ rng' = rng + 4 * area(dimensions')
          /\ gpu'[random_buf'.buf.id]
                = random_data_from(dimensions', Seed, rng)]_vars

\* A driver constructed at 2 x 2 has been resized to 4 x 4: only the sixteen
\* samples of the construction were ever drawn, and the random data of cell
\* (0, 0), outside the copied overlap, is all zero.
C16_Witness ==
    /\ generation = 1
    /\ trail # <<>>
    /\ LastResize.old_dim = <<2, 2>>
    /\ dimensions = <<4, 4>>
    /\ rng = 16
    /\ gpu[random_buf.buf.id][0] = ZeroVec4
    /\ gpu[random_buf.buf.id][5] = LastResize.old_random[0]

\* A call of Life::import stores the host data in the cell buffer that the
\* binding set of the current Phase binds at binding 1, the one the next step
\* reads, changes no other buffer and leaves the counter alone.
ImportWritesSource ==
    imports' # imports =>
        LET phase == PhaseOf(frame_num)
            target == bind_groups[phase].entries[2].resource.id
        IN  /\ target = cell_buffers[phase].buf.id
            /\ gpu' = [gpu EXCEPT ![target] = last_import'.cells]
            /\ last_import'.into = target.label
            /\ frame_num' = frame_num
            /\ cell_buffers' = cell_buffers

\* C17: Life::import writes the host data into the source buffer of the
\* current Phase and into no other buffer, and the host invokes it only
\* before the first step (it never invokes it again, after a resize or
\* otherwise).
C17_ImportSource ==
    [][/\ ImportWritesSource
       /\ imports' # imports => (steps = 0 /\ frame_num = 0 /\ imports = 0)]_vars

\* The import of LifeProg::init into a 4 x 4 grid has been made: the Forward
\* buffer holds the sixteen cells drawn after the 64 samples of Life::new,
\* the Backward buffer is still zero.
C17_Witness ==
    /\ pc = "warmup"
    /\ dimensions = <<4, 4>>
    /\ imports = 1
    /\ rng = 80
    /\ gpu[cell_buffers["Forward"].buf.id] = cell_data(<<4, 4>>, Seed, 64)
    /\ gpu[cell_buffers["Backward"].buf.id] = [i \in 0..15 |-> 0]
    /\ gpu[cell_buffers["Forward"].buf.id] # [i \in 0..15 |-> 0]

\* The directions n calls of bind_up_dir apply the closure to.
RECURSIVE Applied(_)
Applied(n) ==
    IF n = 0 THEN <<>>
    ELSE Applied(n - 1) \o <<"Forward", "Forward", "Backward">>

\* C18 as stated: each call of bind_up_dir (one in Life::new, one in each
\* Life::resize) applies the closure once per Phase, twice in total.
C18_AsStated ==
    Len(evaluations) = 2 * (generation + 1)

\* C18 as amended: each call of bind_up_dir applies the closure three times,
\* once to Forward for the layout and once to each Phase for its binding
\* set, all at bind time; the result is a table of one binding set per Phase,
\* and the closure is applied at no other time, so never during a step.
C18_Evaluations ==
    /\ evaluations = Applied(generation + 1)
    /\ Len(evaluations) = 3 * (generation + 1)
    /\ DOMAIN bind_groups = RenderDirs
    /\ Cardinality(DOMAIN bind_groups) = 2
    /\ \A d \in RenderDirs :
          bind_groups[d].layout = pipeline.layout
    /\ steps > 0 =>
          (last_step.gen = generation =>
              last_step.bind_group = bind_groups[last_step.dir])

\* A resized driver has taken two steps: the closure was applied six times,
\* three by Life::new and three by Life::resize.
C18_Witness ==
    /\ generation = 1
    /\ steps = 2
    /\ last_step.gen = 1
    /\ evaluations = <<"Forward", "Forward", "Backward",
                       "Forward", "Forward", "Backward">>

\* The operations of a resize, by name.
Ops(order) == [k \in 1..Len(order) |-> order[k].op]

\* The entries of a resize's log that are runs of the Resizing Copy Kernel.
KernelCopies(order) == SelectSeq(order, LAMBDA e : e.op = "copy")

\* The entries of a resize's log that are uploads of default values.
ZeroFills(order) == SelectSeq(order, LAMBDA e : e.op = "fill")

\* The positions of a resize's log that write a buffer.
Writes(order) == {k \in 1..Len(order) : order[k].op \in {"copy", "fill"}}

\* The operations of a resize on a native build and on a wasm32 build.
NativeOps ==
    <<"allocate", "allocate", "copy", "copy", "allocate", "copy",
      "bind", "bind", "replace", "allocate">>

Wasm32Ops ==
    <<"allocate", "allocate", "fill", "copy", "fill", "copy", "allocate",
      "fill", "copy", "bind", "bind", "replace", "allocate">>

\* C19, as stated: every write of a resize into a buffer reads a buffer of
\* the old generation and writes one of the new, and each new cell buffer is
\* written exactly once.
C19_AsStated ==
    trail # <<>> =>
        LET o == LastResize.order
            old == generation - 1
        IN  /\ \A k \in Writes(o) :
                  o[k].src.gen = old /\ o[k].dst.gen = generation
            /\ \A d \in RenderDirs :
                  Cardinality({k \in Writes(o) :
                                  o[k].dst = cell_buffers[d].buf.id}) = 1

\* C19: a resize creates the two new cell buffers, then runs the Resizing
\* Copy Kernel from each old src(p) into the new src(p), then creates the
\* new random buffer and runs the kernel from the old one into it, then
\* builds the binding sets, on new buffers only, and only then replaces the
\* driver's fields; the new debug buffer is created last, after that
\* replacement.  Every run of the kernel reads a buffer of the old
\* generation and writes one of the new, each new cell buffer is written by
\* exactly one run of the kernel, and what a run leaves is made of the cells
\* the old buffer held when resize was called.  On a wasm32 build, and only
\* there, each run of the kernel comes right after an upload of zeros into
\* the same new buffer, read from an import buffer made for it: there each
\* new buffer is written twice.
C19_ResizeOrder ==
    trail # <<>> =>
        LET r == LastResize
            o == r.order
            old == generation - 1
            runs == KernelCopies(o)
            fills == ZeroFills(o)
            wasm32 == r.rand_copy.wasm32
        IN  /\ Ops(o) = IF wasm32 THEN Wasm32Ops ELSE NativeOps
            /\ o[1].dst = Id(CellLabel("Forward"), generation)
            /\ o[2].dst = Id(CellLabel("Backward"), generation)
            /\ Len(runs) = 3
            /\ runs[1].src = Id(CellLabel("Forward"), old)
            /\ runs[1].dst = src(cell_buffers, "Forward").buf.id
            /\ runs[2].src = Id(CellLabel("Backward"), old)
            /\ runs[2].dst = src(cell_buffers, "Backward").buf.id
            /\ runs[3].src = Id("random data", old)
            /\ runs[3].dst = random_buf.buf.id
            /\ \A k \in 1..Len(o) :
                  /\ (o[k].op = "allocate" /\ o[k].dst.label = "random data")
                        => o[k].dst = random_buf.buf.id
                  /\ o[k].op = "copy" =>
                        o[k].src.gen = old /\ o[k].dst.gen = generation
                  /\ o[k].op = "bind" =>
                        o[k].src.gen = generation /\ o[k].dst.gen = generation
                  /\ o[k].op = "fill" =>
                        /\ o[k + 1].op = "copy"
                        /\ o[k + 1].dst = o[k].dst
                        /\ o[k].src = Id("data import buffer", generation)
            /\ \A d \in RenderDirs :
                  /\ Cardinality({k \in 1..Len(runs) :
                                     runs[k].dst = cell_buffers[d].buf.id}) = 1
                  /\ Cardinality({k \in Writes(o) :
                                     o[k].dst = cell_buffers[d].buf.id})
                        = IF wasm32 THEN 2 ELSE 1
                  /\ r.cell_copy[d].wasm32 = wasm32
                  /\ r.cell_copy[d].submitted = IF wasm32 THEN 2 ELSE 1
            /\ Len(fills) = IF wasm32 THEN 3 ELSE 0
            /\ o[Len(o)].dst = debug_buffer.buf.buf.id
            /\ o[Len(o)].dst = Id("debug buffer", generation)
            /\ \A d \in RenderDirs :
                  LET p == r.cell_copy[d].params
                  IN  /\ r.cell_copy[d].src = Id(CellLabel(d), old)
                      /\ r.cell_copy[d].dst = cell_buffers[d].buf.id
                      /\ gpu[cell_buffers[d].buf.id] = r.cell_copy[d].cells
                      /\ \A x \in 0..(p.width - 1) : \A y \in 0..(p.height - 1) :
                            r.cell_copy[d].cells[(y + p.ndy) * p.nwidth
                                                 + x + p.ndx]
                               = r.old_cells[d][(y + p.ody) * p.owidth
                                                + x + p.odx]
            /\ \A id \in DOMAIN gpu : id.gen = generation


\* A 4 x 4 driver whose two cell buffers differ (one step of two was
\* submitted after an import) has been resized to 3 x 3 on a wasm32 build:
\* each new buffer was filled with zeros and then copied into.
C19_Witness ==
    /\ trail # <<>>
    /\ LastResize.old_dim = <<4, 4>>
    /\ LastResize.new_dim = <<3, 3>>
    /\ LastResize.old_cells["Forward"] = [k \in 0..15 |-> 10 + k]
    /\ LastResize.old_cells["Backward"] # LastResize.old_cells["Forward"]
    /\ gpu[cell_buffers["Forward"].buf.id][0] = 10
    /\ gpu[cell_buffers["Backward"].buf.id][0] = 0
    /\ Len(LastResize.order) = 13
    /\ LastResize.order[3].op = "fill"
    /\ LastResize.order[3].dst = Id(CellLabel("Forward"), 1)
    /\ LastResize.order[4].src = Id(CellLabel("Forward"), 0)
    /\ LastResize.order[13].dst = Id("debug buffer", 1)

\* ceil(a / d), exactly, for a small divisor d > 0.
CeilDiv(a, d) ==
    LET q == u32_div(a, d)
        r == ((a.hi % d) * LimbBase + a.lo) % d
    IN  IF r = 0 THEN q ELSE u32_add(q, u32_of(1)).value

\* a < b, for limb pairs whose upper limb may exceed 16 bits.
Less(a, b) == a.hi < b.hi \/ (a.hi = b.hi /\ a.lo < b.lo)

\* The cells along one axis that g tiles span, not reduced modulo 2^32.
Span(g) ==
    LET lo == g.lo * WORKGROUP_SIZE
    IN  U32(g.hi * WORKGROUP_SIZE + lo \div LimbBase, lo % LimbBase)

\* g tiles cover n cells and overshoot by fewer than a tile.
Covers(g, n) ==
    /\ ~Less(Span(g), n)
    /\ Less(Span(g), U32(n.hi + (n.lo + WORKGROUP_SIZE) \div LimbBase,
                         (n.lo + WORKGROUP_SIZE) % LimbBase))

\* C20, as stated: for every u32 width and height, step dispatches
\* ceil(w / 8) x ceil(h / 8) tiles, which cover every cell of the grid and
\* overshoot each axis by fewer than 8 cells.
C20_EveryExtent ==
    tiles.op = "step" =>
        /\ ~tiles.panicked
        /\ tiles.xgroups = CeilDiv(tiles.w, WORKGROUP_SIZE)
        /\ tiles.ygroups = CeilDiv(tiles.h, WORKGROUP_SIZE)
        /\ Covers(tiles.xgroups, tiles.w)
        /\ Covers(tiles.ygroups, tiles.h)

\* What does hold: the claim for every extent up to 2^32 - 9, where
\* dim + 8 stays in range, and for 2^32 - 8 without overflow checks.
C20_InRange ==
    tiles.op = "step" =>
        LET top == U32(LimbBase - 1, LimbBase - WORKGROUP_SIZE)
            fits(n) == Less(n, top) \/ (n = top /\ ~tiles.overflow_checks)
        IN  /\ tiles.panicked =
                  (tiles.overflow_checks
                      /\ (~Less(tiles.w, top) \/ ~Less(tiles.h, top)))
            /\ fits(tiles.w) /\ ~tiles.panicked =>
                  /\ tiles.xgroups = CeilDiv(tiles.w, WORKGROUP_SIZE)
                  /\ Covers(tiles.xgroups, tiles.w)
            /\ fits(tiles.h) /\ ~tiles.panicked =>
                  /\ tiles.ygroups = CeilDiv(tiles.h, WORKGROUP_SIZE)
                  /\ Covers(tiles.ygroups, tiles.h)
            /\ tiles.w.hi = 0 /\ tiles.w.lo <= MaxDim =>
                  tiles.xgroups = u32_of(Groups(tiles.w.lo))

\* A step on a grid 2^32 - 1 cells wide and 9 high, without overflow checks,
\* has dispatched no tile along x and two along y.
C20_Witness ==
    /\ tiles.op = "step"
    /\ tiles.w = U32(LimbBase - 1, LimbBase - 1)
    /\ tiles.h = u32_of(WORKGROUP_SIZE + 1)
    /\ ~tiles.overflow_checks
    /\ ~tiles.panicked
    /\ tiles.xgroups = u32_of(0)
    /\ tiles.ygroups = u32_of(2)

\* C21, as stated: for every u32 overlap width and height, copy dispatches
\* ceil(width / 8) x ceil(height / 8) tiles; an overlap of 0 along an axis
\* gives 0 tiles along it and the copy writes no cell of the destination.
C21_EveryOverlap ==
    tiles.op = "copy" =>
        /\ ~tiles.panicked
        /\ tiles.xgroups = CeilDiv(tiles.w, WORKGROUP_SIZE)
        /\ tiles.ygroups = CeilDiv(tiles.h, WORKGROUP_SIZE)
        /\ tiles.w = u32_of(0) => tiles.xgroups = u32_of(0)
        /\ tiles.h = u32_of(0) => tiles.ygroups = u32_of(0)
        /\ tiles.w = u32_of(0) \/ tiles.h = u32_of(0) => ~tiles.writes

\* What does hold of copy: the tile counts for every overlap up to
\* 2^32 - 9 (and 2^32 - 8 without overflow checks), and the empty copy.
C21_InRange ==
    tiles.op = "copy" =>
        LET top == U32(LimbBase - 1, LimbBase - WORKGROUP_SIZE)
            fits(n) == Less(n, top) \/ (n = top /\ ~tiles.overflow_checks)
        IN  /\ tiles.panicked =
                  (tiles.overflow_checks
                      /\ (~Less(tiles.w, top) \/ ~Less(tiles.h, top)))
            /\ fits(tiles.w) /\ ~tiles.panicked =>
                  tiles.xgroups = CeilDiv(tiles.w, WORKGROUP_SIZE)
            /\ fits(tiles.h) /\ ~tiles.panicked =>
                  tiles.ygroups = CeilDiv(tiles.h, WORKGROUP_SIZE)
            /\ tiles.w = u32_of(0) \/ tiles.h = u32_of(0) => ~tiles.writes
            /\ tiles.w.hi = 0 /\ tiles.w.lo <= MaxDim /\ tiles.h.hi = 0
                  /\ tiles.h.lo <= MaxDim =>
                  <<tiles.xgroups, tiles.ygroups, 1>>
                     = <<u32_of(copy_dispatch([width |-> tiles.w.lo,
                                               height |-> tiles.h.lo])[1]),
                         u32_of(copy_dispatch([width |-> tiles.w.lo,
                                               height |-> tiles.h.lo])[2]),
                         1>>

\* A copy whose overlap is 2^32 - 1 wide and 1 high, built with overflow
\* checks, has panicked in the dispatch arithmetic.
C21_Witness ==
    /\ tiles.op = "copy"
    /\ tiles.w = U32(LimbBase - 1, LimbBase - 1)
    /\ tiles.h = u32_of(1)
    /\ tiles.overflow_checks
    /\ tiles.panicked
    /\ ~tiles.writes

\* C22: a step copies nothing between the cell buffers and changes nothing
\* of the driver but the counter: it records one compute pass and no copy,
\* the device memory, the dimensions, both cell buffers, the random buffer,
\* the pipeline and both binding sets stay what they were, and the source of
\* the next Phase is the destination of this one (and the other way round).
StepOnlyCounts ==
    steps' = steps + 1 =>
        /\ frame_num' = frame_num + 1
        /\ UNCHANGED <<pipeline, bind_groups, dimensions, cell_buffers,
                       random_buf, debug_buffer, gpu, generation>>
        /\ encoder' = Append(encoder, last_step')
        /\ last_step'.copies = <<>>
        /\ last_step'.bind_group = bind_groups[RenderDir_dir(frame_num)]
        /\ RenderDir_dir(frame_num') # RenderDir_dir(frame_num)
        /\ src(cell_buffers', RenderDir_dir(frame_num'))
              = dst(cell_buffers, RenderDir_dir(frame_num))
        /\ dst(cell_buffers', RenderDir_dir(frame_num'))
              = src(cell_buffers, RenderDir_dir(frame_num))

C22_StepOnlyCounts == [][StepOnlyCounts]_vars

\* One step has been recorded, and not submitted, on a driver whose source
\* buffer holds imported data: the two cell buffers still differ.
C22_Witness ==
    /\ steps = 1
    /\ frame_num = 1
    /\ Len(encoder) = 1
    /\ imports = 1
    /\ last_step.copies = <<>>
    /\ dimensions = <<2, 2>>
    /\ gpu[cell_buffers["Forward"].buf.id] = [i \in 0..3 |-> 10 + i]
    /\ gpu[cell_buffers["Backward"].buf.id] = [i \in 0..3 |-> ZeroF32]

\* The binding sets (one per Phase) that reference buffer id, and those
\* that bind it writable.
Referencing(id) ==
    {d \in RenderDirs :
        \E i \in DOMAIN bind_groups[d].entries :
            bind_groups[d].entries[i].resource.id = id}

Writing(id) ==
    {d \in RenderDirs :
        \E i \in DOMAIN bind_groups[d].entries :
            /\ bind_groups[d].entries[i].resource.id = id
            /\ bind_groups[d].layout[i].ty.binding = "Buffer"
            /\ ~bind_groups[d].layout[i].ty.read_only}

DriverBuffers ==
    {cell_buffers[d].buf.id : d \in RenderDirs} \cup {random_buf.buf.id}

\* C23, as stated: every cell buffer and the random buffer is referenced by
\* exactly one binding set, so no two binding sets can write one buffer.
C23_AsStated ==
    \A id \in DriverBuffers :
        /\ Cardinality(Referencing(id)) = 1
        /\ Cardinality(Writing(id)) <= 1

\* C23, amended: both binding sets reference all three buffers, and only
\* buffers of the driver's generation.  Each cell buffer is the read-only
\* source of one binding set and the writable destination of the other, so
\* exactly one binding set writes it; the random buffer is writable in both.
\* A recorded step uses one binding set, whose source and destination
\* differ.
C23_Bindings ==
    /\ \A d \in RenderDirs :
          /\ Referencing(cell_buffers[d].buf.id) = RenderDirs
          /\ Cardinality(Writing(cell_buffers[d].buf.id)) = 1
          /\ Writing(dst(cell_buffers, d).buf.id) = {d}
          /\ \A i \in DOMAIN bind_groups[d].entries :
                bind_groups[d].entries[i].resource.id.gen = generation
    /\ Referencing(random_buf.buf.id) = RenderDirs
    /\ Writing(random_buf.buf.id) = RenderDirs
    /\ \A k \in 1..Len(encoder) :
          /\ SlotId(encoder[k], 1) # SlotId(encoder[k], 2)
          /\ encoder[k].gen = generation =>
                encoder[k].bind_group = bind_groups[encoder[k].dir]

\* After a resize, two steps of different Phase are recorded, each with its
\* own binding set, and both bind the same random buffer for writing.
C23_Witness ==
    /\ generation = 1
    /\ Len(encoder) = 2
    /\ encoder[1].gen = 1
    /\ encoder[1].dir # encoder[2].dir
    /\ encoder[1].bind_group # encoder[2].bind_group
    /\ SlotId(encoder[1], 3) = random_buf.buf.id
    /\ SlotId(encoder[2], 3) = random_buf.buf.id
    /\ SlotId(encoder[1], 2) = SlotId(encoder[2], 1)

\* C24: on the per-frame path the host never waits for the device: after
\* init and any number of frames and resizes no read-back of the debug
\* buffer has run, and no step has recorded a copy into it.
C24_NoWait ==
    /\ waits = 0
    /\ last_step.copies = <<>>
    /\ frames > 0 => steps = InitSteps + frames

\* The host has rendered all its frames, one of them after a resize.
C24_Witness ==
    /\ pc = "loop"
    /\ frames = MaxFrames
    /\ generation > 0
    /\ last_step.gen = generation
    /\ waits = 0

\* The Buffer2D's the driver holds, each with the size of its elements.
DriverBuffer2Ds(cells, random, debugbuf) ==
    {<<cells[d], SizeOfF32>> : d \in RenderDirs}
    \cup {<<random, SizeOfVec4U32>>, <<debugbuf.buf, SizeOfF32>>}

\* byteSize == width * height * sizeof(T) for every buffer of the driver,
\* whose contents have one element per cell; and Buffer2D::new_init, at the
\* driver's dimensions, accepts contents of exactly that many bytes.
SizedByArea ==
    /\ \A b \in DriverBuffer2Ds(cell_buffers, random_buf, debug_buffer) :
          /\ b[1].buf.size = width(b[1].dim) * height(b[1].dim) * b[2]
          /\ b[1].dim = dimensions
          /\ Cardinality(DOMAIN gpu[b[1].buf.id]) = area(b[1].dim)
          /\ b[1] = Buffer2D_new(b[1].buf.id, b[1].label, b[1].dim, b[2])
    /\ \A len \in 0..(area(dimensions) * SizeOfVec4U32 + SizeOfVec4U32) :
          LET made == Buffer2D_new_init(random_buf.buf.id, "random data",
                                        "Storage", dimensions,
                                        SizeOfVec4U32, len)
          IN  /\ made.panicked = (len # area(dimensions) * SizeOfVec4U32)
              /\ ~made.panicked => made.buffer = random_buf

\* No operation alters a buffer that exists: a buffer found under the same
\* identity after an operation has the dimension and the size it had; where
\* the dimensions change, every buffer is a newly constructed one.
BuffersImmutable ==
    /\ \A b \in DriverBuffer2Ds(cell_buffers, random_buf, debug_buffer) :
       \A c \in DriverBuffer2Ds(cell_buffers', random_buf', debug_buffer') :
          c[1].buf.id = b[1].buf.id => c[1] = b[1]
    /\ generation' = generation =>
          /\ UNCHANGED <<cell_buffers, random_buf, debug_buffer, dimensions>>
          /\ \A id \in DOMAIN gpu :
                id \in DOMAIN gpu' /\ DOMAIN gpu'[id] = DOMAIN gpu[id]
    /\ generation' # generation =>
          \A b \in DriverBuffer2Ds(cell_buffers, random_buf, debug_buffer) :
          \A c \in DriverBuffer2Ds(cell_buffers', random_buf', debug_buffer') :
             c[1].buf.id # b[1].buf.id

\* C25: every Buffer2D has byteSize = width * height * sizeof(T) from its
\* construction on, new_init refusing contents of any other length, and no
\* operation changes the dimension or the size of an existing buffer: a
\* resize constructs new buffers.
C25_BufferSize == [](SizedByArea) /\ [][BuffersImmutable]_vars

\* A 3 x 3 driver has been stepped, imported into and resized to 1 x 3: the
\* buffers are those of a new generation, sized for 3 cells.
C25_Witness ==
    /\ trail # <<>>
    /\ LastResize.old_dim = <<3, 3>>
    /\ dimensions = <<1, 3>>
    /\ steps > 0
    /\ imports > 0
    /\ cell_buffers["Forward"].buf.size = 3 * SizeOfF32
    /\ random_buf.buf.size = 3 * SizeOfVec4U32
    /\ cell_buffers["Forward"].buf.id.gen = 1

\* The margins a rectangle of `extent` cells at `offset` leaves in `whole`
\* cells differ by at most 1.
Centred(offset, extent, whole) ==
    LET low == offset
        high == whole - offset - extent
    IN  high - low \in {0 - 1, 0, 1}

\* C26: the rectangle copy_params describes lies inside the old buffer and
\* inside the new one; in each axis at most one of the two offsets is not
\* 0; and in each buffer the margins on the low and the high side differ by
\* at most 1.
C26_InsideBoth ==
    \A i \in 2..Len(chain) :
        LET ow == width(chain[i - 1].buf.dim)
            oh == height(chain[i - 1].buf.dim)
            nw == width(chain[i].buf.dim)
            nh == height(chain[i].buf.dim)
            p == chain[i].via.params
        IN  /\ p.odx >= 0 /\ p.ody >= 0 /\ p.ndx >= 0 /\ p.ndy >= 0
            /\ p.width >= 0 /\ p.height >= 0
            /\ p.odx + p.width <= ow
            /\ p.ndx + p.width <= nw
            /\ p.ody + p.height <= oh
            /\ p.ndy + p.height <= nh
            /\ p.odx = 0 \/ p.ndx = 0
            /\ p.ody = 0 \/ p.ndy = 0
            /\ Centred(p.odx, p.width, ow)
            /\ Centred(p.ndx, p.width, nw)
            /\ Centred(p.ody, p.height, oh)
            /\ Centred(p.ndy, p.height, nh)

\* A copy from 4 x 1 into 1 x 4: along x the old buffer keeps a margin of 1
\* on the low side and 2 on the high side, along y the new buffer does.
C26_Witness ==
    /\ Len(chain) = 2
    /\ chain[1].buf.dim = <<4, 1>>
    /\ chain[2].buf.dim = <<1, 4>>
    /\ chain[2].via.params.odx = 1
    /\ chain[2].via.params.ndy = 1
    /\ chain[2].via.params.ndx = 0
    /\ chain[2].via.params.ody = 0
    /\ chain[2].via.params.width = 1
    /\ chain[2].via.params.height = 1

\* A resize or an import leaves the counter, and so the Phase, as it was.
CounterKept ==
    (generation' # generation \/ imports' # imports) =>
        /\ frame_num' = frame_num
        /\ steps' = steps
        /\ RenderDir_dir(frame_num') = RenderDir_dir(frame_num)

\* C27: Life::resize and Life::import leave the step counter unchanged, so
\* the Phase after them is the Phase before them, and after any interleaving
\* of step, resize and import the counter is the number of steps taken
\* since construction.
C27_CounterIsSteps == [](frame_num = steps) /\ [][CounterKept]_vars

\* One step, then an import, then another step, then a resize: the counter
\* is 2.
C27_Witness ==
    /\ steps = 2
    /\ frame_num = 2
    /\ imports = 1
    /\ last_import.frame = 1
    /\ generation = 1
    /\ trail # <<>>
    /\ dir = "Forward"

\* C28: a resize to the dimensions the driver already has computes all four
\* offsets as 0 and the whole grid as the overlap, for the cell buffers and
\* for the random buffer, and every cell of each new buffer equals the cell
\* at the same coordinates of the old buffer it was copied from.
C28_SameSize ==
    (trail # <<>> /\ LastResize.old_dim = LastResize.new_dim) =>
        LET r == LastResize
            W == width(r.old_dim)
            H == height(r.old_dim)
            whole == [odx |-> 0, ndx |-> 0, ody |-> 0, ndy |-> 0,
                      owidth |-> W, nwidth |-> W,
                      width |-> W, height |-> H]
        IN  /\ \A d \in RenderDirs :
                  /\ r.cell_copy[d].params = whole
                  /\ DOMAIN gpu[cell_buffers[d].buf.id] = 0..(W * H - 1)
                  /\ \A x \in 0..(W - 1) : \A y \in 0..(H - 1) :
                        gpu[cell_buffers[d].buf.id][y * W + x]
                           = r.old_cells[d][y * W + x]
            /\ r.rand_copy.params = whole
            /\ \A x \in 0..(W - 1) : \A y \in 0..(H - 1) :
                  gpu[random_buf.buf.id][y * W + x]
                     = r.old_random[y * W + x]
            /\ dimensions = r.old_dim
            /\ \A d \in RenderDirs : cell_buffers[d].buf.id.gen = generation

\* A 3 x 3 driver whose source holds imported data, all different, and
\* whose other cell buffer is still zero has been resized to 3 x 3.
C28_Witness ==
    /\ trail # <<>>
    /\ LastResize.old_dim = <<3, 3>>
    /\ LastResize.new_dim = <<3, 3>>
    /\ generation = 1
    /\ gpu[cell_buffers["Forward"].buf.id] = [i \in 0..8 |-> 10 + i]
    /\ gpu[cell_buffers["Backward"].buf.id] = [i \in 0..8 |-> ZeroF32]
    /\ gpu[random_buf.buf.id] = random_data(<<3, 3>>, Seed)

\* C29: a W x H buffer copied into a buffer of W' >= W by H' >= H and that
\* one copied into a W x H buffer again gives back every cell of the first
\* at its coordinates, whatever the first held.
C29_GrowShrink ==
    \A i \in 3..Len(chain) :
        LET W == width(chain[i - 2].buf.dim)
            H == height(chain[i - 2].buf.dim)
            W2 == width(chain[i - 1].buf.dim)
            H2 == height(chain[i - 1].buf.dim)
        IN  (chain[i].buf.dim = chain[i - 2].buf.dim /\ W2 >= W /\ H2 >= H)
            => /\ chain[i].cells = chain[i - 2].cells
               /\ \A x \in 0..(W - 1) : \A y \in 0..(H - 1) :
                     chain[i].cells[y * W + x] = chain[i - 2].cells[y * W + x]
               /\ chain[i].via.params.odx = chain[i - 1].via.params.ndx
               /\ chain[i].via.params.ody = chain[i - 1].via.params.ndy

\* (1,2) -> (4,3) -> (1,2) on a buffer whose two cells differ: the growth
\* is odd along both axes, and both cells are back.
C29_Witness ==
    /\ Len(chain) = 3
    /\ chain[1].buf.dim = <<1, 2>>
    /\ chain[1].cells = [k \in 0..1 |-> 10 + k]
    /\ chain[2].buf.dim = <<4, 3>>
    /\ chain[2].via.params.ndx = 1
    /\ chain[2].cells[1] = 10
    /\ chain[2].cells[5] = 11
    /\ chain[3].buf.dim = <<1, 2>>
    /\ chain[3].cells = [k \in 0..1 |-> 10 + k]

\* C30: in the host program work reaches the queue in the order of the
\* driver's history.  The import is submitted before the work of any step;
\* no handler returns with a step recorded and not submitted, so whenever a
\* resize submits its copies no earlier step is pending; and the first
\* resize after the steps copies what those steps left in the cell buffers.
C30_QueueOrder ==
    /\ encoder = <<>>
    /\ imports > 0 => last_import.frame = 0
    /\ steps > 0 => imports = 1
    /\ \A k \in 1..Len(trail) : trail[k].pending = 0
    /\ (trail # <<>> /\ generation = Len(trail) /\ steps > 0) =>
          /\ last_written.label # "None"
          /\ \A d \in RenderDirs :
                trail[1].old_cells[d] = last_import.cells

\* A frame has been rendered after the warm-up steps and the window has
\* then been resized from 4 x 4 to 3 x 3: nothing was pending, and the copy
\* took the imported cells the steps had carried into both buffers.
C30_Witness ==
    /\ pc = "loop"
    /\ frames = 1
    /\ steps = InitSteps + 1
    /\ trail # <<>>
    /\ LastResize.pending = 0
    /\ LastResize.old_dim = <<4, 4>>
    /\ LastResize.new_dim = <<3, 3>>
    /\ LastResize.old_cells["Forward"] = last_import.cells
    /\ gpu[cell_buffers["Backward"].buf.id][0] = last_import.cells[0]

=============================================================================
